---- MODULE Spec2Model ----
(***************************************************************************)
(* Historical-bar retrieval of trading_backend: the day-partitioned 1s     *)
(* base cache (_get_and_prepare_1s_data_for_range), the materialization of *)
(* a computed series under a chart_data handle and its paging.             *)
(*                                                                         *)
(* Time is counted in whole seconds from the start of day 0; a calendar    *)
(* day holds DayLen seconds.  Redis keys are modelled as the tuple of the  *)
(* ':'-separated fields of the key string.                                 *)
(***************************************************************************)
EXTENDS Integers, Sequences, FiniteSets, TLC

\* ------------------------------------------------------------------ bounds
NumDays == 3
DayLen == 2

Days == 0..(NumDays - 1)
Time == 0..(NumDays * DayLen - 1)

SessionTokens == {"s1"}
Exchanges == {"NASDAQ"}
Symbols == {"AAPL"}

\* upstream   the vendor's content: the seconds for which it holds a 1s bar
\* redis      the cache: a function from the keys present to their values
\* last       the record of the last _get_and_prepare_1s_data_for_range call
\* next_uuid  how many request ids uuid.uuid4() has produced
\* resp       the response of the request being answered, if any
\* now        the clock, time.time()
\* sweep      the run of cleanup_expired_sessions_task in progress, if any
\* hb         the session_heartbeat request in progress, if any
\* calls      the _get_and_prepare_1s_data_for_range calls running side by side
\* kernel     the input and output of a resample_ohlc_cpu_jit run
\* issued     how many session tokens initiate_session has produced
VARIABLES upstream, redis, last, next_uuid, resp, now, sweep, hb, calls, kernel, issued,
          task, fetch, client, keepalive

vars == <<upstream, redis, last, next_uuid, resp, now, sweep, hb, calls, kernel, issued,
          task, fetch, client, keepalive>>

\* The state of the query handlers, of the session sweep, of the calls
\* running side by side, of the aggregation kernel, of the fan-out task and
\* of the vendor side (the fetch, the client module, the keep-alive loop).
servevars == <<last, next_uuid, resp>>
sweepvars == <<now, sweep, hb, issued>>
racevars == <<calls>>
kernelvars == <<kernel>>
taskvars == <<task>>
vendorvars == <<fetch, client, keepalive>>

\* ------------------------------------------------------------ calendar days
\* datetime.date(): the calendar day of an instant.
DateOf(t) == t \div DayLen

\* datetime.combine(day, datetime.min.time())
DayStart(day) == day * DayLen

\* datetime.combine(day, datetime.max.time()): the last instant of the day.
DayEnd(day) == day * DayLen + (DayLen - 1)

\* min(missing_dates) over a non-empty list.
MinOf(s) == s[CHOOSE i \in 1..Len(s) : \A j \in 1..Len(s) : s[i] <= s[j]]

\* A slip: the end of the fetch taken from the earliest missing day.
MaxOf_EarliestDay(s) == MinOf(s)

\* max(missing_dates) over a non-empty list.
MaxOf(s) == s[CHOOSE i \in 1..Len(s) : \A j \in 1..Len(s) : s[i] >= s[j]]

\* pd.date_range(start_time.date(), end_time.date()): every day, ascending.
\* A slip: the day of end_time is left out.
date_range_EndExclusive(start_time, end_time) ==
    [i \in 1..(DateOf(end_time) - DateOf(start_time)) |-> DateOf(start_time) + i - 1]

date_range(start_time, end_time) ==
    [i \in 1..(DateOf(end_time) - DateOf(start_time) + 1) |->
        DateOf(start_time) + i - 1]

\* ------------------------------------------------------------------- bars
\* schemas.CandleBase: unix_timestamp is derived from timestamp by the
\* model validator whenever a candle is constructed.
CandleBase(ts, o, h, l, c, v) ==
    [timestamp |-> ts, open |-> o, high |-> h, low |-> l, close |-> c,
     volume |-> v, unix_timestamp |-> ts]

\* The bar the vendor holds for second ts (prices are a fixed function of
\* the second, so that upstream content is the set of seconds that trade).
UpstreamBar(ts) ==
    CandleBase(ts, 10 + (ts % 3), 12 + (ts % 3), 9 + (ts % 2), 11 + (ts % 2), 1 + (ts % 2))

\* ------------------------------------------------------------------ redis
\* The value of redis_client.mget for an absent key.
Nil == [kind |-> "nil", doc |-> <<>>]

\* Bytes that are not JSON.
Garbage == [kind |-> "garbage", doc |-> <<>>]

\* json.dumps(records)
JsonDumps(records) == [kind |-> "json", doc |-> records]

\* ohlc:{exchange}:{symbol}:{interval}:{date}:{session_token}
build_ohlc_cache_key(exchange, token, interval, date_str, session_token) ==
    <<"ohlc", exchange, token, interval, date_str, session_token>>

\* redis_client.mget(keys): one value per key, None for an absent key.
MGet(r, keys) ==
    [i \in 1..Len(keys) |-> IF keys[i] \in DOMAIN r THEN r[keys[i]] ELSE Nil]

\* pipe.set(key, value, ex=...) for every queued write, then pipe.execute().
RECURSIVE PipelineExecute(_, _)
PipelineExecute(r, writes) ==
    IF writes = <<>> THEN r
    ELSE LET w == Head(writes)
             r1 == [k \in (DOMAIN r) \cup {w.key} |->
                       IF k = w.key THEN w.value ELSE r[k]]
         IN PipelineExecute(r1, Tail(writes))

\* ------------------------------------------------- cached day partitions
\* Timestamp.isoformat(): the text of an instant, as stored in the JSON.
isoformat(ts) == [iso |-> ts]

\* pydantic's parse of an ISO-8601 text back into a datetime.
fromisoformat(txt) == txt.iso

\* One row of group.to_dict(orient='records') after the timestamp is made
\* text: the candle's model_dump() plus the date_key grouping column.
CacheRecord(c) ==
    [timestamp |-> isoformat(c.timestamp), open |-> c.open, high |-> c.high,
     low |-> c.low, close |-> c.close, volume |-> c.volume,
     unix_timestamp |-> c.unix_timestamp, date_key |-> DateOf(c.timestamp)]

\* [schemas.CandleBase(**item) for item in deserialized]: the extra
\* date_key is ignored and unix_timestamp is recomputed.
ParseCandles(doc) ==
    [i \in 1..Len(doc) |->
        CandleBase(fromisoformat(doc[i].timestamp), doc[i].open, doc[i].high,
                   doc[i].low, doc[i].close, doc[i].volume)]

\* `if result:` on an mget value: None is falsy, non-empty bytes are truthy.
Truthy(result) == result.kind # "nil"

\* json.loads(result) returns (TRUE) or raises JSONDecodeError (FALSE).
JsonParses(result) == result.kind = "json"

\* A slip: an empty cached list counted as a miss.
RECURSIVE ScanCached_EmptyIsMiss(_, _, _, _)
ScanCached_EmptyIsMiss(cached_results, days, i, st) ==
    IF i > Len(cached_results) THEN st
    ELSE LET result == cached_results[i]
             day == days[i]
         IN IF Truthy(result) /\ JsonParses(result) /\ result.doc # <<>>
            THEN ScanCached_EmptyIsMiss(cached_results, days, i + 1,
                     [st EXCEPT !.all_1s_candles = @ \o ParseCandles(result.doc)])
            ELSE ScanCached_EmptyIsMiss(cached_results, days, i + 1,
                     [st EXCEPT !.missing_dates = Append(@, day)])

\* The loop over cached_results: hits extend all_1s_candles, absent and
\* unparseable days are appended to missing_dates.
RECURSIVE ScanCached(_, _, _, _)
ScanCached(cached_results, days, i, st) ==
    IF i > Len(cached_results) THEN st
    ELSE LET result == cached_results[i]
             day == days[i]
         IN IF Truthy(result)
            THEN IF JsonParses(result)
                 THEN IF result.doc # <<>>
                      THEN ScanCached(cached_results, days, i + 1,
                               [st EXCEPT !.all_1s_candles = @ \o ParseCandles(result.doc)])
                      ELSE ScanCached(cached_results, days, i + 1, st)
                 ELSE ScanCached(cached_results, days, i + 1,
                          [st EXCEPT !.missing_dates = Append(@, day)])
            ELSE ScanCached(cached_results, days, i + 1,
                     [st EXCEPT !.missing_dates = Append(@, day)])

\* ------------------------------------------------------------- upstream
\* How the one call to the vendor ends: it answers ("ok"), or it fails as a
\* whole ("error": the history connection cannot be had, or the request
\* raises NoDataError, UnauthorizedError or any other exception).
FetchOutcomes == {"ok", "error"}

\* The seconds of a set, ascending (ascend=True).
RECURSIVE Ascending(_)
Ascending(S) ==
    IF S = {} THEN <<>>
    ELSE LET m == CHOOSE x \in S : \A y \in S : x <= y
         IN <<m>> \o Ascending(S \ {m})

\* fetch_from_dtn_iq_api for an intraday interval: the vendor's bars with
\* start_time <= timestamp <= end_time, or [] when the connection is not
\* available or the request raises.
fetch_from_dtn_iq_api(up, start_time, end_time, outcome) ==
    IF outcome # "ok" THEN <<>>
    ELSE LET mask == {t \in up : t >= start_time /\ t <= end_time}
             ts == Ascending(mask)
         IN [i \in 1..Len(ts) |-> UpstreamBar(ts[i])]

\* ------------------------------------------------------------ write-back
\* new_data_df.groupby('date_key'): the fetched rows of one day, in order.
GroupOf(newly_fetched_data, date_str) ==
    SelectSeq(newly_fetched_data, LAMBDA c : DateOf(c.timestamp) = date_str)

\* A slip: every day of the fetched span is written, cached or not.
WriteBack_FetchedSpan(newly_fetched_data, missing_dates, exchange, token, session_token) ==
    [i \in 1..(MaxOf(missing_dates) - MinOf(missing_dates) + 1) |->
        LET date_str == MinOf(missing_dates) + i - 1
            group == GroupOf(newly_fetched_data, date_str)
        IN [key |-> build_ohlc_cache_key(exchange, token, "1s", date_str, session_token),
            value |-> JsonDumps([j \in 1..Len(group) |-> CacheRecord(group[j])])]]

\* The queued pipe.set calls, one per missing day: the day's rows, or an
\* empty list for a day without fetched rows.
WriteBack(newly_fetched_data, missing_dates, exchange, token, session_token) ==
    [i \in 1..Len(missing_dates) |->
        LET date_str == missing_dates[i]
            group == GroupOf(newly_fetched_data, date_str)
        IN [key |-> build_ohlc_cache_key(exchange, token, "1s", date_str, session_token),
            value |-> IF group # <<>>
                      THEN JsonDumps([j \in 1..Len(group) |-> CacheRecord(group[j])])
                      ELSE JsonDumps(<<>>)]]

\* A slip: the write-back runs whatever the fetch returned.
ShouldWriteBack_Always(newly_fetched_data) == TRUE

\* `if newly_fetched_data:` (and `if not new_data_df.empty:`): the write-back
\* runs only when the fetch returned at least one bar.
ShouldWriteBack(newly_fetched_data) == newly_fetched_data # <<>>

\* ------------------------------------------------------- sort and clip
\* list.sort(key=lambda c: c.timestamp): stable, ascending by timestamp.
RECURSIVE InsertSorted(_, _)
InsertSorted(sorted, c) ==
    IF sorted = <<>> THEN <<c>>
    ELSE LET lastc == sorted[Len(sorted)]
         IN IF lastc.timestamp <= c.timestamp
            THEN Append(sorted, c)
            ELSE Append(InsertSorted(SubSeq(sorted, 1, Len(sorted) - 1), c), lastc)

RECURSIVE SortByTimestamp(_)
SortByTimestamp(candles) ==
    IF candles = <<>> THEN <<>>
    ELSE InsertSorted(SortByTimestamp(SubSeq(candles, 1, Len(candles) - 1)),
                      candles[Len(candles)])

\* A slip: the end of the window taken as exclusive.
FilterRange_EndExclusive(candles, start_time, end_time) ==
    SelectSeq(candles, LAMBDA c : start_time <= c.timestamp /\ c.timestamp < end_time)

\* [c for c in all_1s_candles if start <= c.timestamp <= end]
FilterRange(candles, start_time, end_time) ==
    SelectSeq(candles, LAMBDA c : start_time <= c.timestamp /\ c.timestamp <= end_time)

\* ------------------------------------ _get_and_prepare_1s_data_for_range
\* One whole call against cache r and vendor content up.  The record holds
\* the arguments, the cache before and after, what the call did (keys read
\* in each batched read, missing days, upstream fetches issued, queued
\* writes, pipelines executed) and the series it returns.
Resolve(r, up, session_token, exchange, token, start_time, end_time, outcome) ==
    LET days == date_range(start_time, end_time)
        cache_keys_to_check ==
            [i \in 1..Len(days) |->
                build_ohlc_cache_key(exchange, token, "1s", days[i], session_token)]
        cached_results == MGet(r, cache_keys_to_check)
        scan == ScanCached(cached_results, days, 1,
                           [all_1s_candles |-> <<>>, missing_dates |-> <<>>])
        missing_dates == scan.missing_dates
        fetch_start_time == DayStart(MinOf(missing_dates))
        fetch_end_time == DayEnd(MaxOf(missing_dates))
        newly_fetched_data ==
            IF missing_dates # <<>>
            THEN fetch_from_dtn_iq_api(up, fetch_start_time, fetch_end_time, outcome)
            ELSE <<>>
        writes ==
            IF ShouldWriteBack(newly_fetched_data)
            THEN WriteBack(newly_fetched_data, missing_dates, exchange, token, session_token)
            ELSE <<>>
        all_1s_candles == scan.all_1s_candles \o newly_fetched_data
    IN [called |-> TRUE,
        seq |-> 0,
        args |-> [session_token |-> session_token, exchange |-> exchange,
                  token |-> token, start_time |-> start_time, end_time |-> end_time],
        before |-> r,
        reads |-> <<cache_keys_to_check>>,
        missing_dates |-> missing_dates,
        fetches |-> IF missing_dates # <<>>
                    THEN <<[interval_val |-> "1s", start_time |-> fetch_start_time,
                            end_time |-> fetch_end_time, outcome |-> outcome]>>
                    ELSE <<>>,
        newly_fetched_data |-> newly_fetched_data,
        hit_candles |-> scan.all_1s_candles,
        all_1s_candles |-> all_1s_candles,
        writes |-> writes,
        pipelines |-> IF ShouldWriteBack(newly_fetched_data) THEN <<writes>> ELSE <<>>,
        after |-> PipelineExecute(r, writes),
        final_filtered_candles |->
            FilterRange(SortByTimestamp(all_1s_candles), start_time, end_time)]

\* --------------------------------------------------- resample_ohlc_cpu_jit
\* A slip: a bucket starts at the timestamp of its first bar.
BucketStart_Unaligned(ts, aggregation_seconds) == ts

\* A slip: the bucket start is rounded up to the next multiple.
BucketStart_RoundUp(ts, aggregation_seconds) ==
    ((ts + aggregation_seconds - 1) \div aggregation_seconds) * aggregation_seconds

\* np.floor(ts / aggregation_seconds) * aggregation_seconds
BucketStart(ts, aggregation_seconds) == (ts \div aggregation_seconds) * aggregation_seconds

\* The bar a bucket starts with (lines 22-27 for the first input row).
FirstBar(c, bucket_start_ts) ==
    [timestamp |-> bucket_start_ts, open |-> c.open, high |-> c.high, low |-> c.low,
     close |-> c.close, volume |-> c.volume]

\* A slip: a row at exactly bucket_start_ts + aggregation_seconds stays
\* in the bucket.
OpensBucket_Strict(ts, bucket_start_ts, aggregation_seconds) ==
    ts > bucket_start_ts + aggregation_seconds

\* `if ts >= bucket_start_ts + aggregation_seconds:` (line 34)
OpensBucket(ts, bucket_start_ts, aggregation_seconds) ==
    ts >= bucket_start_ts + aggregation_seconds

\* A slip: the volume of a new bar starts at the row's volume, which the
\* update below then adds again.
NewBar_VolumeCounted(c, bucket_start_ts) ==
    [timestamp |-> bucket_start_ts, open |-> c.open, high |-> c.high, low |-> c.low,
     close |-> 0, volume |-> c.volume]

\* Lines 40-44: a new bar takes the open, high and low of this row and its
\* volume is reset to 0; close is written by the update below.
NewBar(c, bucket_start_ts) ==
    [timestamp |-> bucket_start_ts, open |-> c.open, high |-> c.high, low |-> c.low,
     close |-> 0, volume |-> 0]

\* A slip: the high and the low of a bar are never raised or lowered.
UpdateBar_HighLowKept(cur, c) ==
    [cur EXCEPT !.close = c.close, !.volume = @ + c.volume]

\* A slip: the close of a bar stays that of its first row.
UpdateBar_CloseKept(cur, c) ==
    [cur EXCEPT !.high = IF c.high > @ THEN c.high ELSE @,
                !.low = IF c.low < @ THEN c.low ELSE @,
                !.volume = @ + c.volume]

\* Lines 47-54: the bar being built takes in row c.
UpdateBar(cur, c) ==
    [cur EXCEPT !.high = IF c.high > @ THEN c.high ELSE @,
                !.low = IF c.low < @ THEN c.low ELSE @,
                !.close = c.close,
                !.volume = @ + c.volume]

\* The loop over rows 1..n-1: out is out_*[0..current_bar_idx], its last
\* element the bar being built.
RECURSIVE ResampleLoop(_, _, _, _, _)
ResampleLoop(rows, aggregation_seconds, i, out, bucket_start_ts) ==
    IF i > Len(rows) THEN out
    ELSE LET c == rows[i]
             ts == c.timestamp
             opens == OpensBucket(ts, bucket_start_ts, aggregation_seconds)
             start1 == IF opens THEN BucketStart(ts, aggregation_seconds)
                       ELSE bucket_start_ts
             out1 == IF opens THEN Append(out, NewBar(c, start1)) ELSE out
             cur == out1[Len(out1)]
             upd == UpdateBar(cur, c)
         IN ResampleLoop(rows, aggregation_seconds, i + 1,
                         [out1 EXCEPT ![Len(out1)] = upd], start1)

\* The value of current_bar_idx (counted from 1) while each row is taken
\* in: acc[i] is the output bar row i goes to.
RECURSIVE BarIndexLoop(_, _, _, _, _)
BarIndexLoop(rows, aggregation_seconds, i, acc, bucket_start_ts) ==
    IF i > Len(rows) THEN acc
    ELSE LET ts == rows[i].timestamp
             opens == OpensBucket(ts, bucket_start_ts, aggregation_seconds)
             current_bar_idx == IF opens THEN acc[Len(acc)] + 1 ELSE acc[Len(acc)]
         IN BarIndexLoop(rows, aggregation_seconds, i + 1, Append(acc, current_bar_idx),
                         IF opens THEN BucketStart(ts, aggregation_seconds)
                         ELSE bucket_start_ts)

current_bar_idx(rows, aggregation_seconds) ==
    IF Len(rows) = 0 THEN <<>>
    ELSE BarIndexLoop(rows, aggregation_seconds, 2, <<1>>,
                      BucketStart(rows[1].timestamp, aggregation_seconds))

\* A slip: no guard for empty input; the first of the zeroed output rows
\* is returned.
launch_resample_ohlc_ZeroBar(rows, aggregation_seconds) ==
    IF Len(rows) = 0
    THEN <<[timestamp |-> 0, open |-> 0, high |-> 0, low |-> 0, close |-> 0, volume |-> 0]>>
    ELSE LET bucket_start_ts == BucketStart(rows[1].timestamp, aggregation_seconds)
         IN ResampleLoop(rows, aggregation_seconds, 2,
                         <<FirstBar(rows[1], bucket_start_ts)>>, bucket_start_ts)

\* resample_ohlc_cpu_jit by way of launch_resample_ohlc: the aggregated
\* bars, trimmed to the number produced.
launch_resample_ohlc(rows, aggregation_seconds) ==
    IF Len(rows) = 0 THEN <<>>
    ELSE LET bucket_start_ts == BucketStart(rows[1].timestamp, aggregation_seconds)
         IN ResampleLoop(rows, aggregation_seconds, 2,
                         <<FirstBar(rows[1], bucket_start_ts)>>, bucket_start_ts)

\* ---------------------------------------------------- materialized results
\* The intervals a request may name; "1w" is not in INTERVAL_SECONDS_MAP.
Intervals == {"1s", "5s", "1w"}

\* INTERVAL_SECONDS_MAP.get(interval_val): 0 stands for None.  A day of the
\* model lasts DayLen seconds, which is what "1d" (86400) maps to.
INTERVAL_SECONDS_MAP(interval_val) ==
    CASE interval_val = "1s" -> 1
      [] interval_val = "5s" -> 5
      [] interval_val = "1d" -> DayLen
      [] OTHER -> 0

\* The values uuid.uuid4() returns, in the order it returns them.
UuidStream == <<"u1", "u2">>

\* A slip: every result is stored under the same handle.
RequestId_Reused(session_token, uuid) == <<"chart_data", session_token, "u1">>

\* f"chart_data:{session_token}:{uuid.uuid4()}"
RequestId(session_token, uuid) == <<"chart_data", session_token, uuid>>

\* A request id that is None.
NoRequestId == <<>>

\* set_cached_ohlc_data(key, candles, expiration): the candles as a JSON array.
set_cached_ohlc_data(r, key, candles) ==
    [k \in (DOMAIN r) \cup {key} |->
        IF k = key
        THEN JsonDumps([i \in 1..Len(candles) |->
                 [timestamp |-> isoformat(candles[i].timestamp), open |-> candles[i].open,
                  high |-> candles[i].high, low |-> candles[i].low,
                  close |-> candles[i].close, volume |-> candles[i].volume,
                  unix_timestamp |-> candles[i].unix_timestamp]])
        ELSE r[k]]

\* get_cached_ohlc_data(key) found a value (FALSE: it returns None).
CachedOhlcPresent(r, key) == key \in DOMAIN r /\ r[key].kind = "json"

\* get_cached_ohlc_data(key): the stored candles, for a key that is present.
get_cached_ohlc_data(r, key) == ParseCandles(r[key].doc)

\* A slip: an empty base series is materialized like any other.
ProcessFullData_StoresEmpty(r, base_1s_candles, session_token, interval_val, uuid) ==
    IF base_1s_candles = <<>>
    THEN [status |-> 200, request_id |-> RequestId(session_token, uuid),
          redis |-> set_cached_ohlc_data(r, RequestId(session_token, uuid), <<>>),
          stored |-> TRUE, final_candles |-> <<>>, aggregations |-> 0]
    ELSE IF interval_val # "1s" /\ INTERVAL_SECONDS_MAP(interval_val) = 0
    THEN [status |-> 400, request_id |-> NoRequestId, redis |-> r, stored |-> FALSE,
          final_candles |-> <<>>, aggregations |-> 0]
    ELSE LET agg == launch_resample_ohlc(base_1s_candles, INTERVAL_SECONDS_MAP(interval_val))
             final_candles ==
                 IF interval_val = "1s" THEN base_1s_candles
                 ELSE [i \in 1..Len(agg) |->
                          CandleBase(agg[i].timestamp, agg[i].open, agg[i].high,
                                     agg[i].low, agg[i].close, agg[i].volume)]
             request_id == RequestId(session_token, uuid)
             aggregations == IF interval_val = "1s" THEN 0 ELSE 1
         IN IF final_candles # <<>>
            THEN [status |-> 200, request_id |-> request_id,
                  redis |-> set_cached_ohlc_data(r, request_id, final_candles),
                  stored |-> TRUE, final_candles |-> final_candles,
                  aggregations |-> aggregations]
            ELSE [status |-> 200, request_id |-> NoRequestId, redis |-> r, stored |-> FALSE,
                  final_candles |-> final_candles, aggregations |-> aggregations]

\* _process_and_cache_full_data, given the resolved base series: the status
\* (200, or 400 for HTTPException), the request id or None, the cache, the
\* computed series and how many times the aggregation kernel was launched.
ProcessFullData(r, base_1s_candles, session_token, interval_val, uuid) ==
    IF base_1s_candles = <<>>
    THEN [status |-> 200, request_id |-> NoRequestId, redis |-> r, stored |-> FALSE,
          final_candles |-> <<>>, aggregations |-> 0]
    ELSE IF interval_val # "1s" /\ INTERVAL_SECONDS_MAP(interval_val) = 0
    THEN [status |-> 400, request_id |-> NoRequestId, redis |-> r, stored |-> FALSE,
          final_candles |-> <<>>, aggregations |-> 0]
    ELSE LET agg == launch_resample_ohlc(base_1s_candles, INTERVAL_SECONDS_MAP(interval_val))
             final_candles ==
                 IF interval_val = "1s" THEN base_1s_candles
                 ELSE [i \in 1..Len(agg) |->
                          CandleBase(agg[i].timestamp, agg[i].open, agg[i].high,
                                     agg[i].low, agg[i].close, agg[i].volume)]
             request_id == RequestId(session_token, uuid)
             aggregations == IF interval_val = "1s" THEN 0 ELSE 1
         IN IF final_candles # <<>>
            THEN [status |-> 200, request_id |-> request_id,
                  redis |-> set_cached_ohlc_data(r, request_id, final_candles),
                  stored |-> TRUE, final_candles |-> final_candles,
                  aggregations |-> aggregations]
            ELSE [status |-> 200, request_id |-> NoRequestId, redis |-> r, stored |-> FALSE,
                  final_candles |-> final_candles, aggregations |-> aggregations]

\* A slip: the slice is taken from the head of the list.
Slice_FromHead(full_data, offset, stop) ==
    SubSeq(full_data, 1, IF stop - offset < Len(full_data) THEN stop - offset
                         ELSE Len(full_data))

\* full_data[offset:stop] for 0 <= offset <= stop (offsets and limits are
\* counts): the elements at 0-based indices offset .. min(stop, len) - 1.
Slice(full_data, offset, stop) ==
    SubSeq(full_data, offset + 1, IF stop < Len(full_data) THEN stop ELSE Len(full_data))

\* A slip: the page starts at the head of the series.
InitialOffset_Head(total_available, limit) == 0

\* max(0, total_available - limit)
InitialOffset(total_available, limit) ==
    IF total_available - limit > 0 THEN total_available - limit ELSE 0

\* The fields every response record carries next to its own: the keys the
\* handler looked up with get_cached_ohlc_data, the kernel launches it
\* made and the series it computed.
Trace(lookups, aggregations, computed) ==
    [lookups |-> lookups, aggregations |-> aggregations, computed |-> computed]

\* r1 and r2 joined into one record (their fields are distinct).
Join(r1, r2) ==
    [f \in (DOMAIN r1) \cup (DOMAIN r2) |-> IF f \in DOMAIN r1 THEN r1[f] ELSE r2[f]]

\* get_initial_historical_data after _process_and_cache_full_data returned
\* p: the HistoricalDataResponse.  offset -1 stands for None.
InitialResponse(p, limit) ==
    IF p.status # 200
    THEN Join([kind |-> "initial", status |-> p.status, request_id |-> NoRequestId,
               candles |-> <<>>, offset |-> -1, limit |-> limit, total_available |-> 0,
               is_partial |-> FALSE, message |-> "Unsupported interval for resampling"],
              Trace(<<>>, p.aggregations, p.final_candles))
    ELSE IF p.request_id = NoRequestId
    THEN Join([kind |-> "initial", status |-> 200, request_id |-> NoRequestId,
               candles |-> <<>>, offset |-> -1, limit |-> limit, total_available |-> 0,
               is_partial |-> FALSE,
               message |-> "No data available for the selected range."],
              Trace(<<>>, p.aggregations, p.final_candles))
    ELSE IF ~CachedOhlcPresent(p.redis, p.request_id)
            \/ get_cached_ohlc_data(p.redis, p.request_id) = <<>>
    THEN Join([kind |-> "initial", status |-> 200, request_id |-> p.request_id,
               candles |-> <<>>, offset |-> -1, limit |-> limit, total_available |-> 0,
               is_partial |-> FALSE,
               message |-> "Error retrieving processed data from cache."],
              Trace(<<p.request_id>>, p.aggregations, p.final_candles))
    ELSE LET full_data == get_cached_ohlc_data(p.redis, p.request_id)
             total_available == Len(full_data)
             initial_offset == InitialOffset(total_available, limit)
             candles_to_send == Slice(full_data, initial_offset, total_available)
         IN Join([kind |-> "initial", status |-> 200, request_id |-> p.request_id,
                  candles |-> candles_to_send, offset |-> initial_offset, limit |-> limit,
                  total_available |-> total_available,
                  is_partial |-> (total_available > Len(candles_to_send)),
                  message |-> "Initial data loaded."],
                 Trace(<<p.request_id>>, p.aggregations, p.final_candles))

\* A slip: the prefix is not tested.
HasChartDataPrefix_Any(request_id) == TRUE

\* request_id.startswith("chart_data:")
HasChartDataPrefix(request_id) == Len(request_id) >= 2 /\ request_id[1] = "chart_data"

\* A slip: a handle without a stored value is answered as an empty page.
MissingResult_EmptyPage(request_id, offset, limit) ==
    Join([kind |-> "chunk", status |-> 200, request_id |-> request_id, candles |-> <<>>,
          offset |-> offset, limit |-> limit, total_available |-> 0,
          is_partial |-> FALSE, message |-> ""],
         Trace(<<request_id>>, 0, <<>>))

\* `if full_data is None: raise HTTPException(status_code=404, ...)`
MissingResult(request_id, offset, limit) ==
    Join([kind |-> "chunk", status |-> 404, request_id |-> request_id, candles |-> <<>>,
          offset |-> offset, limit |-> limit, total_available |-> 0,
          is_partial |-> FALSE,
          message |-> "Data for this request not found or has expired."],
         Trace(<<request_id>>, 0, <<>>))

\* get_historical_data_chunk: the HistoricalDataChunkResponse, or the
\* HTTPException's status.
ChunkResponse(r, request_id, offset, limit) ==
    IF ~HasChartDataPrefix(request_id)
    THEN Join([kind |-> "chunk", status |-> 400, request_id |-> request_id,
               candles |-> <<>>, offset |-> offset, limit |-> limit,
               total_available |-> 0, is_partial |-> FALSE,
               message |-> "Invalid request_id format."],
              Trace(<<>>, 0, <<>>))
    ELSE IF ~CachedOhlcPresent(r, request_id)
    THEN MissingResult(request_id, offset, limit)
    ELSE LET full_data == get_cached_ohlc_data(r, request_id)
             total_available == Len(full_data)
         IN Join([kind |-> "chunk", status |-> 200, request_id |-> request_id,
                  candles |-> IF offset >= total_available THEN <<>>
                              ELSE Slice(full_data, offset, offset + limit),
                  offset |-> offset, limit |-> limit,
                  total_available |-> total_available,
                  is_partial |-> FALSE, message |-> ""],
                 Trace(<<request_id>>, 0, <<>>))

\* ---------------------------------------------------------- state machine
\* Vendor content: the set of seconds for which the vendor holds a bar.
\* A day either trades in every one of its seconds or in none.
DayChoices(day) == {{}, DayStart(day)..DayEnd(day)}

UpstreamChoices ==
    {u \in SUBSET Time :
        \A day \in Days : (u \cap (DayStart(day)..DayEnd(day))) \in DayChoices(day)}

EmptyRedis == [k \in {} |-> Nil]

NoArgs ==
    [session_token |-> "", exchange |-> "", token |-> "", start_time |-> 0, end_time |-> 0]

\* No call is on record.
NoCall ==
    [called |-> FALSE, seq |-> 0, args |-> NoArgs, before |-> EmptyRedis,
     reads |-> <<>>, missing_dates |-> <<>>, fetches |-> <<>>,
     newly_fetched_data |-> <<>>, hit_candles |-> <<>>, all_1s_candles |-> <<>>,
     writes |-> <<>>, pipelines |-> <<>>, after |-> EmptyRedis,
     final_filtered_candles |-> <<>>]

\* No request is being answered.
NoResp ==
    [kind |-> "none", status |-> 0, request_id |-> NoRequestId, candles |-> <<>>,
     offset |-> -1, limit |-> 0, total_available |-> 0, is_partial |-> FALSE,
     message |-> "", lookups |-> <<>>, aggregations |-> 0, computed |-> <<>>]

\* No sweep is running, no heartbeat is being handled, no calls run side
\* by side, the kernel has not run.
NoSweep ==
    [pc |-> "idle", pending |-> {}, cur |-> <<>>, current_time |-> 0, cleaned |-> {},
     deleted |-> {}, status |-> "", faulted |-> FALSE, undisturbed |-> FALSE,
     streak |-> 0, prev_deleted |-> {}, at_scan |-> EmptyRedis]
NoHeartbeat == [pc |-> "idle", token |-> ""]
NoCalls == [active |-> FALSE, args |-> NoArgs, before |-> EmptyRedis, proc |-> <<>>]
NoKernel == [pc |-> "idle"]
NoTask == [called |-> FALSE]
NoFetch == [called |-> FALSE]
NoClient == [loaded |-> FALSE]
NoKeepAlive == [pc |-> "off"]

\* The fan-out task, the fetch, the vendor client and the keep-alive loop
\* at rest.
VendorIdle ==
    /\ task = NoTask
    /\ fetch = NoFetch
    /\ client = NoClient
    /\ keepalive = NoKeepAlive

Init ==
    /\ upstream \in UpstreamChoices
    /\ redis = EmptyRedis
    /\ last = NoCall
    /\ next_uuid = 0
    /\ resp = NoResp
    /\ now = 0
    /\ sweep = NoSweep
    /\ hb = NoHeartbeat
    /\ calls = NoCalls
    /\ kernel = NoKernel
    /\ issued = 0
    /\ VendorIdle

\* The step of one call: the cache becomes what the call leaves, and
\* `last` keeps the record of the call.
Call(args, outcome) ==
    /\ last' = [Resolve(redis, upstream, args.session_token, args.exchange, args.token,
                        args.start_time, args.end_time, outcome)
                    EXCEPT !.seq = 1 - last.seq]
    /\ redis' = last'.after
    /\ UNCHANGED <<upstream, next_uuid, resp, sweepvars, racevars, kernelvars, taskvars, vendorvars>>

\* A request resolves [start_time, end_time] (the router admits only
\* start_time < end_time); the vendor call, if one is made, ends in outcome.
ResolveCall ==
    /\ ~last.called
    /\ resp = NoResp
    /\ \E session_token \in SessionTokens, exchange \in Exchanges, token \in Symbols,
          start_time \in Time, end_time \in Time, outcome \in FetchOutcomes :
        /\ start_time < end_time
        /\ Call([session_token |-> session_token, exchange |-> exchange,
                 token |-> token, start_time |-> start_time, end_time |-> end_time],
                outcome)

\* The same request is made again, right after the call on record.  (Any
\* other request follows ForgetCall, so every sequence of requests is a
\* behaviour.)
RepeatCall ==
    \E outcome \in FetchOutcomes :
        /\ last.called
        /\ Call(last.args, outcome)

\* The record of the last call is dropped; the cache is as the call left it.
ForgetCall ==
    /\ last.called
    /\ last' = NoCall
    /\ UNCHANGED <<upstream, redis, next_uuid, resp, sweepvars, racevars, kernelvars, taskvars, vendorvars>>

\* A day partition's expiration (ex=CACHE_EXPIRATION_SECONDS) runs out.
Expire ==
    \E k \in DOMAIN redis :
        /\ k[1] = "ohlc"
        /\ resp = NoResp
        /\ redis' = [j \in (DOMAIN redis) \ {k} |-> redis[j]]
        /\ last' = NoCall
        /\ UNCHANGED <<upstream, next_uuid, resp, sweepvars, racevars, kernelvars, taskvars, vendorvars>>

\* A stored value is damaged: its bytes no longer parse as JSON.
Corrupt ==
    \E k \in DOMAIN redis :
        /\ resp = NoResp
        /\ redis[k] # Garbage
        /\ redis' = [redis EXCEPT ![k] = Garbage]
        /\ last' = NoCall
        /\ UNCHANGED <<upstream, next_uuid, resp, sweepvars, racevars, kernelvars, taskvars, vendorvars>>

Next == ResolveCall \/ RepeatCall \/ ForgetCall \/ Expire \/ Corrupt

Spec == Init /\ [][Next]_vars

\* ------------------------------------------- the request handlers, paging
MaxLimit == 3
MaxOffset == 5

\* The request ids a client may present: the handles materialization can
\* issue, a base-cache key and a key with the prefix but no uuid.
RequestIdChoices ==
    {RequestId(s, UuidStream[i]) : s \in SessionTokens, i \in 1..Len(UuidStream)}
        \cup {build_ohlc_cache_key("NASDAQ", "AAPL", "1s", 0, "s1"), <<"chart_data", "s1">>}

\* get_initial_historical_data: the base series is resolved, aggregated to
\* the interval and materialized, and its last `limit` bars are returned.
\* The request's start_time, end_time and limit are drawn from the sets given.
Materialize(starts, ends, limits) ==
    /\ resp = NoResp
    /\ next_uuid < Len(UuidStream)
    /\ \E session_token \in SessionTokens, exchange \in Exchanges, token \in Symbols,
          start_time \in starts, end_time \in ends, outcome \in FetchOutcomes :
        /\ start_time < end_time
        /\ last' = Resolve(redis, upstream, session_token, exchange, token,
                           start_time, end_time, outcome)
        /\ \E interval_val \in Intervals, limit \in limits :
             LET p == ProcessFullData(last'.after, last'.final_filtered_candles,
                                      session_token, interval_val,
                                      UuidStream[next_uuid + 1])
             IN /\ redis' = p.redis
                /\ next_uuid' = IF p.stored THEN next_uuid + 1 ELSE next_uuid
                /\ resp' = InitialResponse(p, limit)
        /\ UNCHANGED <<upstream, sweepvars, racevars, kernelvars, taskvars, vendorvars>>

\* The first query to be materialized: any range, any limit.
GetInitial == next_uuid = 0 /\ Materialize(Time, Time, 0..MaxLimit)

\* A query after one that was materialized: it asks for the whole period.
GetInitialNext ==
    next_uuid > 0 /\ Materialize({0}, {NumDays * DayLen - 1}, {MaxLimit})

\* A slip: the stored result is dropped once a page of it was served.
GetChunk_Consuming ==
    /\ resp = NoResp
    /\ \E request_id \in RequestIdChoices, offset \in 0..MaxOffset, limit \in 0..MaxLimit :
        /\ resp' = ChunkResponse(redis, request_id, offset, limit)
        /\ redis' = [k \in (DOMAIN redis) \ {request_id} |-> redis[k]]
        /\ UNCHANGED <<upstream, last, next_uuid, sweepvars, racevars, kernelvars, taskvars, vendorvars>>

\* get_historical_data_chunk(request_id, offset, limit)
GetChunk ==
    /\ resp = NoResp
    /\ \E request_id \in RequestIdChoices, offset \in 0..MaxOffset, limit \in 0..MaxLimit :
        /\ resp' = ChunkResponse(redis, request_id, offset, limit)
        /\ UNCHANGED <<upstream, redis, last, next_uuid, sweepvars, racevars, kernelvars, taskvars, vendorvars>>

\* The response goes out to the client; the next request can be handled.
Deliver ==
    /\ resp # NoResp
    /\ resp' = NoResp
    /\ last' = NoCall
    /\ UNCHANGED <<upstream, redis, next_uuid, sweepvars, racevars, kernelvars, taskvars, vendorvars>>

\* A materialized result's expiration (expiration=3600) runs out.
ExpireResult ==
    \E k \in DOMAIN redis :
        /\ HasChartDataPrefix(k)
        /\ resp = NoResp
        /\ redis' = [j \in (DOMAIN redis) \ {k} |-> redis[j]]
        /\ UNCHANGED <<upstream, last, next_uuid, resp, sweepvars, racevars, kernelvars, taskvars, vendorvars>>

NextPaging == GetInitial \/ GetChunk \/ Deliver \/ ExpireResult

SpecPaging == Init /\ [][NextPaging]_vars

\* Queries one after another, each materialized under its own handle.
NextHandles == GetInitial \/ GetInitialNext \/ Deliver \/ ExpireResult

SpecHandles == Init /\ [][NextHandles]_vars

\* ------------------------------------------------------ the session sweep
\* Time is counted in units in which SESSION_TIMEOUT_SECONDS (30 * 60) is
\* this small; the clock runs up to MaxNow.
SESSION_TIMEOUT_SECONDS == 1
MaxNow == 2

\* The values uuid.uuid4() returns to initiate_session, in order.
TokenStream == <<"s1", "s2">>

\* f"session:{session_token}"
SessionKey(session_token) == <<"session", session_token>>

\* The marker's value: the time of the last heartbeat.
Marker(ts) == [kind |-> "int", doc |-> <<ts>>]

\* redis_client.get(key): None for an absent key.
RedisGet(r, key) == IF key \in DOMAIN r THEN r[key] ELSE Nil

\* redis_client.set(key, value, ex=...)
RedisSet(r, key, value) == [k \in (DOMAIN r) \cup {key} |-> IF k = key THEN value ELSE r[k]]

\* redis_client.delete(key) for every key of keys; absent keys are skipped.
RedisDelete(r, keys) == [k \in (DOMAIN r) \ keys |-> r[k]]

\* redis_client.scan_iter("session:*")
ScanSessions(r) == {k \in DOMAIN r : k[1] = "session"}

\* redis_client.scan_iter(f"user:{session_token}:*")
ScanUserData(r, session_token) ==
    {k \in DOMAIN r : Len(k) >= 3 /\ k[1] = "user" /\ k[2] = session_token}

\* A slip: the value read is used whether or not the key was there.
MarkerTruthy_Always(value) == TRUE

\* `if last_seen_timestamp_bytes:`
MarkerTruthy(value) == value.kind # "nil"

\* current_time - last_seen_timestamp > SESSION_TIMEOUT_SECONDS
IsExpired(current_time, last_seen_timestamp) ==
    current_time - last_seen_timestamp > SESSION_TIMEOUT_SECONDS

\* Something other than the sweep acted: the run in progress is no longer
\* a run without traffic (what it saw at its scan is no longer kept), and
\* the record of a run that has ended is dropped.
Disturbed ==
    IF sweep.pc \in {"idle", "done"} THEN NoSweep
    ELSE [sweep EXCEPT !.undisturbed = FALSE, !.streak = 0, !.prev_deleted = {},
                       !.at_scan = EmptyRedis]

InitSweep ==
    /\ upstream = Time
    /\ redis = EmptyRedis
    /\ last = NoCall
    /\ next_uuid = 0
    /\ resp = NoResp
    /\ now = 0
    /\ sweep = NoSweep
    /\ hb = NoHeartbeat
    /\ calls = NoCalls
    /\ kernel = NoKernel
    /\ issued = 0
    /\ VendorIdle

\* initiate_session: a new token, its marker set to the current time.
InitiateSession ==
    /\ issued < Len(TokenStream)
    /\ redis' = RedisSet(redis, SessionKey(TokenStream[issued + 1]), Marker(now))
    /\ issued' = issued + 1
    /\ sweep' = Disturbed
    /\ UNCHANGED <<upstream, servevars, now, hb, racevars, kernelvars, taskvars, vendorvars>>

\* session_heartbeat, first half: redis_client.exists(token_key).
HeartbeatExists ==
    /\ hb.pc = "idle"
    /\ \E i \in 1..issued :
          hb' = [pc |-> IF SessionKey(TokenStream[i]) \in DOMAIN redis
                        THEN "found" ELSE "idle",
                 token |-> IF SessionKey(TokenStream[i]) \in DOMAIN redis
                           THEN TokenStream[i] ELSE ""]
    /\ sweep' = Disturbed
    /\ UNCHANGED <<upstream, redis, servevars, now, issued, racevars, kernelvars, taskvars, vendorvars>>

\* session_heartbeat, second half: the marker is set to the current time.
HeartbeatSet ==
    /\ hb.pc = "found"
    /\ redis' = RedisSet(redis, SessionKey(hb.token), Marker(now))
    /\ hb' = NoHeartbeat
    /\ sweep' = Disturbed
    /\ UNCHANGED <<upstream, servevars, now, issued, racevars, kernelvars, taskvars, vendorvars>>

\* A client of an initiated session queries the first day; the handler
\* resolves, materializes and answers in one step.
SessionQuery ==
    /\ next_uuid < Len(UuidStream)
    /\ \E i \in 1..issued :
          LET c == Resolve(redis, upstream, TokenStream[i], "NASDAQ", "AAPL",
                           0, DayLen - 1, "ok")
              p == ProcessFullData(c.after, c.final_filtered_candles, TokenStream[i],
                                   "1s", UuidStream[next_uuid + 1])
          IN /\ redis' = p.redis
             /\ next_uuid' = IF p.stored THEN next_uuid + 1 ELSE next_uuid
    /\ sweep' = Disturbed
    /\ UNCHANGED <<upstream, last, resp, now, hb, issued, racevars, kernelvars, taskvars, vendorvars>>

\* The clock advances.
Tick ==
    /\ now < MaxNow
    /\ now' = now + 1
    /\ sweep' = Disturbed
    /\ UNCHANGED <<upstream, redis, servevars, hb, issued, racevars, kernelvars, taskvars, vendorvars>>

\* A marker's expiration (ex=60*45) runs out.
ExpireMarker ==
    /\ \E k \in ScanSessions(redis) : redis' = RedisDelete(redis, {k})
    /\ sweep' = Disturbed
    /\ UNCHANGED <<upstream, servevars, now, hb, issued, racevars, kernelvars, taskvars, vendorvars>>

\* cleanup_expired_sessions_task, lines 17-20: the session keys are
\* scanned and the time is read.
SweepScan ==
    /\ sweep.pc \in {"idle", "done"}
    /\ sweep' = [pc |-> "loop", pending |-> ScanSessions(redis), cur |-> <<>>,
                 current_time |-> now, cleaned |-> {}, deleted |-> {}, status |-> "",
                 faulted |-> FALSE, undisturbed |-> TRUE,
                 streak |-> IF sweep.pc = "done" /\ sweep.undisturbed
                                  /\ sweep.status = "success"
                            THEN 1 ELSE 0,
                 prev_deleted |-> IF sweep.pc = "done" /\ sweep.undisturbed
                                  THEN sweep.deleted ELSE {},
                 at_scan |-> redis]
    /\ UNCHANGED <<upstream, redis, servevars, now, hb, issued, racevars, kernelvars, taskvars, vendorvars>>

\* Lines 22-26: the next session key is read; an absent key is passed
\* over, and so is a session that has not timed out.
SweepGet ==
    /\ sweep.pc = "loop"
    /\ \E session_key \in sweep.pending :
          LET value == RedisGet(redis, session_key)
              rest == sweep.pending \ {session_key}
          IN sweep' =
               IF ~MarkerTruthy(value) THEN [sweep EXCEPT !.pending = rest]
               ELSE IF value.kind # "int"
               THEN [sweep EXCEPT !.pc = "done", !.status = "error", !.pending = rest]
               ELSE IF IsExpired(sweep.current_time, value.doc[1])
               THEN [sweep EXCEPT !.pc = "expired", !.cur = session_key, !.pending = rest]
               ELSE [sweep EXCEPT !.pending = rest]
    /\ UNCHANGED <<upstream, redis, servevars, now, hb, issued, racevars, kernelvars, taskvars, vendorvars>>

\* Line 33: redis_client.delete(session_key).
SweepDeleteMarker ==
    /\ sweep.pc = "expired"
    /\ redis' = RedisDelete(redis, {sweep.cur})
    /\ sweep' = [sweep EXCEPT !.pc = "marker_deleted",
                              !.cleaned = @ \cup {sweep.cur[2]},
                              !.deleted = @ \cup ({sweep.cur} \cap DOMAIN redis)]
    /\ UNCHANGED <<upstream, servevars, now, hb, issued, racevars, kernelvars, taskvars, vendorvars>>

\* Lines 36-45: the keys matching user:{session_token}:* are scanned and
\* deleted in one pipeline.
SweepDeleteData ==
    /\ sweep.pc = "marker_deleted"
    /\ LET keys_to_delete == ScanUserData(redis, sweep.cur[2])
       IN /\ redis' = RedisDelete(redis, keys_to_delete)
          /\ sweep' = [sweep EXCEPT !.pc = "loop", !.cur = <<>>,
                                    !.deleted = @ \cup keys_to_delete]
    /\ UNCHANGED <<upstream, servevars, now, hb, issued, racevars, kernelvars, taskvars, vendorvars>>

\* Lines 47-49: every session key was visited; the task reports success.
SweepFinish ==
    /\ sweep.pc = "loop"
    /\ sweep.pending = {}
    /\ sweep' = [sweep EXCEPT !.pc = "done", !.status = "success"]
    /\ UNCHANGED <<upstream, redis, servevars, now, hb, issued, racevars, kernelvars, taskvars, vendorvars>>

\* Lines 51-53: a redis call raises (the connection is lost); the task
\* stops where it is and reports the error.
SweepFail ==
    /\ sweep.pc \in {"loop", "expired", "marker_deleted"}
    /\ sweep' = [sweep EXCEPT !.pc = "done", !.status = "error", !.faulted = TRUE]
    /\ UNCHANGED <<upstream, redis, servevars, now, hb, issued, racevars, kernelvars, taskvars, vendorvars>>

NextSweep ==
    \/ InitiateSession \/ HeartbeatExists \/ HeartbeatSet \/ SessionQuery
    \/ Tick \/ ExpireMarker
    \/ SweepScan \/ SweepGet \/ SweepDeleteMarker \/ SweepDeleteData
    \/ SweepFinish \/ SweepFail

SpecSweep == InitSweep /\ [][NextSweep]_vars

\* ------------------------------------------------- the aggregation kernel
MaxRows == 3
MaxTs == 4
MaxWidth == 3

\* The (open, high, low, close, volume) of the rows the kernel is run on.
RowShapes == {<<2, 3, 1, 2, 1>>, <<4, 5, 3, 4, 2>>, <<1, 6, 0, 5, 3>>}

\* The inputs of the kernel: no row or up to MaxRows rows, sorted by
\* timestamp (two rows may carry the same timestamp).
KernelInputs ==
    UNION {{[i \in 1..n |-> [timestamp |-> ts[i], open |-> sh[i][1], high |-> sh[i][2],
                              low |-> sh[i][3], close |-> sh[i][4], volume |-> sh[i][5]]] :
               ts \in {t \in [1..n -> 0..MaxTs] : \A i \in 1..(n - 1) : t[i] <= t[i + 1]},
               sh \in [1..n -> RowShapes]} : n \in 0..MaxRows}

InitKernel ==
    /\ upstream = {}
    /\ redis = EmptyRedis
    /\ last = NoCall
    /\ next_uuid = 0
    /\ resp = NoResp
    /\ now = 0
    /\ sweep = NoSweep
    /\ hb = NoHeartbeat
    /\ calls = NoCalls
    /\ kernel = NoKernel
    /\ issued = 0
    /\ VendorIdle

\* launch_resample_ohlc(rows, aggregation_seconds) is run.
RunKernel ==
    /\ kernel = NoKernel
    /\ \E rows \in KernelInputs, aggregation_seconds \in 1..MaxWidth :
          kernel' = [pc |-> "done", rows |-> rows,
                     aggregation_seconds |-> aggregation_seconds,
                     out |-> launch_resample_ohlc(rows, aggregation_seconds),
                     bar_of |-> current_bar_idx(rows, aggregation_seconds)]
    /\ UNCHANGED <<upstream, redis, servevars, sweepvars, racevars, taskvars, vendorvars>>

\* The output arrays are dropped.
ResetKernel ==
    /\ kernel # NoKernel
    /\ kernel' = NoKernel
    /\ UNCHANGED <<upstream, redis, servevars, sweepvars, racevars, taskvars, vendorvars>>

NextKernel == RunKernel \/ ResetKernel

SpecKernel == InitKernel /\ [][NextKernel]_vars

\* ======================================================================
\* Properties of the day-partitioned base cache
\* ======================================================================
\* The days of the range of the call on record.
RangeDays == DateOf(last.args.start_time)..DateOf(last.args.end_time)

\* The cache key of day d for the call on record.
KeyOf(d) ==
    build_ohlc_cache_key(last.args.exchange, last.args.token, "1s", d,
                         last.args.session_token)

\* Day d had a well-formed partition in cache r.
WellFormedIn(r, d) == KeyOf(d) \in DOMAIN r /\ r[KeyOf(d)].kind = "json"

\* Day d had a partition in cache r whose stored value does not parse.
CorruptIn(r, d) == KeyOf(d) \in DOMAIN r /\ r[KeyOf(d)].kind = "garbage"

\* The days of the range without a well-formed partition when the call began.
MissingAtStart == {d \in RangeDays : ~WellFormedIn(last.before, d)}

EarliestMissing == CHOOSE d \in MissingAtStart : \A e \in MissingAtStart : d <= e
LatestMissing == CHOOSE d \in MissingAtStart : \A e \in MissingAtStart : d >= e

\* The call on record issued a fetch and the vendor answered / failed.
FetchAnswered(l) == l.fetches # <<>> /\ \A i \in DOMAIN l.fetches : l.fetches[i].outcome = "ok"
FetchFailed(l) == l.fetches # <<>> /\ \A i \in DOMAIN l.fetches : l.fetches[i].outcome = "error"
NoFetchFailed(l) == \A i \in DOMAIN l.fetches : l.fetches[i].outcome = "ok"

\* How many bars of a series carry timestamp t.
CountAt(candles, t) == Cardinality({i \in DOMAIN candles : candles[i].timestamp = t})

\* How many stored rows of the well-formed partitions of the range, in
\* cache r, carry timestamp t.
StoredAt(r, t) ==
    IF DateOf(t) \in RangeDays /\ WellFormedIn(r, DateOf(t))
    THEN Cardinality({i \in DOMAIN r[KeyOf(DateOf(t))].doc :
                         r[KeyOf(DateOf(t))].doc[i].timestamp = isoformat(t)})
    ELSE 0

InWindow(t) == last.args.start_time <= t /\ t <= last.args.end_time

\* C1: resolving the same range twice in a row, with the vendor answering
\* and nothing else touching the cache in between, returns the same series
\* both times and the second call issues no upstream fetch.
C1_Idempotent ==
    [][(/\ last.called /\ last'.called
        /\ last'.seq # last.seq
        /\ last'.args = last.args
        /\ NoFetchFailed(last) /\ NoFetchFailed(last'))
       => (/\ last'.final_filtered_candles = last.final_filtered_candles
           /\ last'.fetches = <<>>)]_vars

\* C2: when at least one day of the range is missing, exactly one upstream
\* fetch is issued, from the start of the earliest missing day to the end
\* of the latest missing day.
C2_SingleCoalescedFetch ==
    (last.called /\ MissingAtStart # {}) =>
        /\ Len(last.fetches) = 1
        /\ last.fetches[1].start_time = EarliestMissing * DayLen
        /\ last.fetches[1].end_time = LatestMissing * DayLen + DayLen - 1

\* A call that found a cached day between two missing days.
C2_Witness ==
    /\ last.called
    /\ \E d1, d2, d3 \in RangeDays :
          /\ d1 < d2 /\ d2 < d3
          /\ d1 \in MissingAtStart /\ d3 \in MissingAtStart
          /\ WellFormedIn(last.before, d2)
    /\ Len(last.fetches) = 1

\* C3: the returned series holds no two bars with the same timestamp (the
\* vendor's bars have unique timestamps).
C3_UniqueTimestamps ==
    last.called =>
        \A i, j \in DOMAIN last.final_filtered_candles :
            i # j => last.final_filtered_candles[i].timestamp
                        # last.final_filtered_candles[j].timestamp

\* C4: after a call whose upstream fetch was answered, every day that was
\* missing when the call began has a well-formed cache partition (an
\* explicit empty one for a day without bars).
C4_WriteBackCoverage ==
    (last.called /\ FetchAnswered(last)) =>
        \A d \in MissingAtStart : WellFormedIn(redis, d)

\* C5: a cached partition holding an empty list is a hit: its day is not
\* among the missing days, it contributes no bars, and it causes no fetch
\* (a fetch is issued only when some other day is missing).
C5_EmptyPartitionIsHit ==
    last.called =>
        \A d \in RangeDays :
            (WellFormedIn(last.before, d) /\ last.before[KeyOf(d)].doc = <<>>) =>
                /\ \A i \in DOMAIN last.missing_dates : last.missing_dates[i] # d
                /\ \A i \in DOMAIN last.hit_candles : DateOf(last.hit_candles[i].timestamp) # d
                /\ last.fetches # <<>> =>
                      \E e \in RangeDays : e # d /\ ~WellFormedIn(last.before, e)

\* A call all of whose days were hits, one of them an empty partition.
C5_Witness ==
    /\ last.called
    /\ \E d \in RangeDays :
          WellFormedIn(last.before, d) /\ last.before[KeyOf(d)].doc = <<>>
    /\ \E d \in RangeDays :
          WellFormedIn(last.before, d) /\ last.before[KeyOf(d)].doc # <<>>
    /\ last.fetches = <<>>

\* C6 (state part): a call whose one upstream fetch failed made no second
\* fetch, queued no write, left the cache as it found it, and returned
\* exactly the cached bars of the window.
C6_FailedFetchState ==
    (last.called /\ FetchFailed(last)) =>
        /\ Len(last.fetches) = 1
        /\ last.writes = <<>>
        /\ redis = last.before
        /\ \A t \in Time :
              CountAt(last.final_filtered_candles, t)
                 = IF InWindow(t) THEN StoredAt(last.before, t) ELSE 0

\* C6 (step part): the same request made right after a failed one issues an
\* upstream fetch again, over the same days.
C6_FailedFetchRetried ==
    (/\ last.called /\ FetchFailed(last)
     /\ last'.called /\ last'.seq # last.seq /\ last'.args = last.args)
    => (/\ Len(last'.fetches) = 1
        /\ last'.fetches[1].start_time = last.fetches[1].start_time
        /\ last'.fetches[1].end_time = last.fetches[1].end_time)

\* C6: an upstream failure leaves the cache unchanged: no retry within the
\* call, no partition written, only the cached bars returned, and the next
\* call for the same range fetches again.
C6_UpstreamFailure == []C6_FailedFetchState /\ [][C6_FailedFetchRetried]_vars

\* A repeated request after a failed fetch, with a cached day in the range.
C6_Witness ==
    /\ last.called /\ FetchFailed(last)
    /\ last.seq = 0
    /\ last.final_filtered_candles # <<>>
    /\ MissingAtStart # {}

\* C7: a partition whose stored value does not parse is treated as a miss,
\* contributes no cached bars, its day is inside the upstream fetch, and
\* after a call whose fetch was answered the partition holds a well-formed
\* value.
C7_SelfHealing ==
    last.called =>
        \A d \in RangeDays :
            CorruptIn(last.before, d) =>
                /\ \E i \in DOMAIN last.missing_dates : last.missing_dates[i] = d
                /\ \A i \in DOMAIN last.hit_candles : DateOf(last.hit_candles[i].timestamp) # d
                /\ Len(last.fetches) = 1
                /\ last.fetches[1].start_time <= d * DayLen
                /\ last.fetches[1].end_time >= d * DayLen + DayLen - 1
                /\ (FetchAnswered(last) => WellFormedIn(redis, d))

\* C8: the returned series is sorted by non-decreasing timestamp and holds
\* exactly the accumulated bars (cache hits plus fetched) with
\* start <= timestamp <= end.
C8_SortedAndClipped ==
    last.called =>
        /\ \A i, j \in DOMAIN last.final_filtered_candles :
              i < j => last.final_filtered_candles[i].timestamp
                          <= last.final_filtered_candles[j].timestamp
        /\ \A i \in DOMAIN last.final_filtered_candles :
              \E j \in DOMAIN last.all_1s_candles :
                  last.all_1s_candles[j] = last.final_filtered_candles[i]
        /\ \A t \in Time :
              CountAt(last.final_filtered_candles, t)
                 = IF InWindow(t) THEN CountAt(last.all_1s_candles, t) ELSE 0

\* A call whose accumulated bars were out of order and reached outside the
\* requested window on both sides.
C8_Witness ==
    /\ last.called
    /\ \E i, j \in DOMAIN last.all_1s_candles :
          i < j /\ last.all_1s_candles[i].timestamp > last.all_1s_candles[j].timestamp
    /\ \E i \in DOMAIN last.all_1s_candles :
          last.all_1s_candles[i].timestamp < last.args.start_time
    /\ \E i \in DOMAIN last.all_1s_candles :
          last.all_1s_candles[i].timestamp > last.args.end_time
    /\ last.final_filtered_candles # <<>>

\* ======================================================================
\* Properties of the materialized result and its pages
\* ======================================================================
\* The series stored under the handle of the response being answered.
StoredSeries == ParseCandles(redis[resp.request_id].doc)

\* The response answers a request for a handle whose series is stored.
AnswersStored(kind) ==
    /\ resp.kind = kind
    /\ resp.request_id \in DOMAIN redis
    /\ HasChartDataPrefix(resp.request_id)

\* The elements of series at the 0-based indices from .. to - 1.
BarsAt(series, from, to) ==
    [i \in 1..(IF to > from THEN to - from ELSE 0) |-> series[from + i]]

Smaller(a, b) == IF a < b THEN a ELSE b

\* C9: the initial page of a materialized series of `total` bars, asked with
\* limit L, is the last min(L, total) bars in order, with
\* offset = max(0, total - L), total_available = total,
\* is_partial = (total > bars returned) and offset + bars returned = total.
C9_TailBiasedInitialPage ==
    AnswersStored("initial") =>
        LET total == Len(StoredSeries)
            n == Smaller(resp.limit, total)
        IN /\ resp.status = 200
           /\ resp.candles = BarsAt(StoredSeries, total - n, total)
           /\ resp.offset = (IF total - resp.limit > 0 THEN total - resp.limit ELSE 0)
           /\ resp.total_available = total
           /\ resp.is_partial = (total > Len(resp.candles))
           /\ resp.offset + Len(resp.candles) = total

\* An initial page that is a proper tail of two or more bars.
C9_Witness ==
    /\ AnswersStored("initial")
    /\ resp.is_partial
    /\ Len(resp.candles) >= 2
    /\ resp.offset >= 2

\* C10: a chunk request (offset, limit) for a stored series of `total` bars
\* returns exactly the bars at indices offset .. min(offset + limit, total) - 1
\* with total_available = total; for offset >= total the slice is empty,
\* total_available = total and the request succeeds.
C10_PagingByHandle ==
    AnswersStored("chunk") =>
        LET total == Len(StoredSeries)
        IN /\ resp.status = 200
           /\ resp.total_available = total
           /\ resp.candles =
                 BarsAt(StoredSeries, resp.offset, Smaller(resp.offset + resp.limit, total))
           /\ (resp.offset >= total => resp.candles = <<>>)

\* A chunk from the middle of the series whose end is clamped to total.
C10_Witness ==
    /\ AnswersStored("chunk")
    /\ resp.offset >= 1
    /\ resp.offset + resp.limit > Len(StoredSeries)
    /\ Len(resp.candles) >= 2

\* A handle of the form chart_data:{session_token}:{uuid}.
HandleFormat(id) == Len(id) = 3 /\ id[1] = "chart_data"

\* A handle materialization can issue.
WellFormedHandle(id) ==
    /\ HandleFormat(id)
    /\ id[2] \in SessionTokens
    /\ \E i \in DOMAIN UuidStream : id[3] = UuidStream[i]

\* C11: a page request for a well-formed handle with no stored result (never
\* materialized, expired or deleted) ends in a not-found error, never in a
\* successful response.
C11_MissingHandleNotFound ==
    (resp.kind = "chunk" /\ WellFormedHandle(resp.request_id)
        /\ resp.request_id \notin DOMAIN redis)
    => (resp.status = 404 /\ resp.candles = <<>>)

\* A page request for a handle that was materialized and has expired.
C11_Witness ==
    /\ resp.kind = "chunk"
    /\ next_uuid >= 1
    /\ resp.request_id = RequestId("s1", UuidStream[1])
    /\ resp.request_id \notin DOMAIN redis
    /\ resp.status = 404

\* C12 (as stated): a page request whose handle is not of the form
\* chart_data:{session_token}:{uuid} is rejected as invalid input and no
\* cache lookup is made for it.
C12_FormatRejected ==
    (resp.kind = "chunk" /\ ~HandleFormat(resp.request_id))
    => (resp.status = 400 /\ resp.lookups = <<>>)

\* C12 (amended): a page request whose handle does not start with
\* "chart_data:" is rejected as invalid input and no cache lookup is made
\* for it; a handle with the prefix is looked up, whatever follows the prefix.
C12_PrefixRejected ==
    resp.kind = "chunk" =>
        IF Len(resp.request_id) >= 2 /\ resp.request_id[1] = "chart_data"
        THEN resp.lookups = <<resp.request_id>> /\ resp.status \in {200, 404}
        ELSE resp.status = 400 /\ resp.lookups = <<>>

\* A rejected page request whose handle names a key present in the cache.
C12_Witness ==
    /\ resp.kind = "chunk"
    /\ resp.request_id[1] = "ohlc"
    /\ resp.request_id \in DOMAIN redis
    /\ resp.status = 400

\* C13: answering a page request issues no upstream fetch, resolves no base
\* series (no partition is read or written), launches no aggregation, looks
\* up nothing but the stored result and leaves the whole cache, the stored
\* result included, as it was.
C13_ServedFromStoredResult ==
    [][(resp.kind = "none" /\ resp'.kind = "chunk")
       => (/\ redis' = redis
           /\ upstream' = upstream
           /\ last' = last /\ ~last'.called
           /\ next_uuid' = next_uuid
           /\ resp'.aggregations = 0
           /\ \A i \in DOMAIN resp'.lookups : resp'.lookups[i][1] = "chart_data")]_vars

\* A page served while the cache holds day partitions next to the result.
C13_Witness ==
    /\ resp.kind = "chunk"
    /\ resp.status = 200
    /\ resp.candles # <<>>
    /\ \E k \in DOMAIN redis : k[1] = "ohlc"

\* The pages of the result stored under id, fetched at offsets offset,
\* offset + limit, ... until offset >= total, one after the other.
RECURSIVE PagesFrom(_, _, _, _)
PagesFrom(r, id, offset, limit) ==
    LET page == ChunkResponse(r, id, offset, limit)
    IN IF page.status # 200 \/ offset >= page.total_available THEN <<>>
       ELSE page.candles \o PagesFrom(r, id, offset + limit, limit)

\* The handles issued by the materializations made so far.
IssuedBefore ==
    {RequestId(s, UuidStream[i]) : s \in SessionTokens, i \in 1..next_uuid}

\* C14 (state part): a non-empty computed series is stored whole under the
\* handle of the response, and the pages of every limit >= 1, taken from
\* offset 0 in steps of limit, concatenate to the computed series.
C14_StoredWhole ==
    (resp.kind = "initial" /\ resp.computed # <<>>) =>
        /\ resp.request_id \in DOMAIN redis
        /\ ParseCandles(redis[resp.request_id].doc) = resp.computed
        /\ \A limit \in 1..MaxLimit :
              PagesFrom(redis, resp.request_id, 0, limit) = resp.computed

\* C14 (step part): the handle a materialization stores under was issued by
\* no earlier materialization and names no key of the cache.
C14_FreshHandle ==
    (resp.kind = "none" /\ resp'.kind = "initial" /\ resp'.computed # <<>>)
    => (/\ resp'.request_id \notin IssuedBefore
        /\ resp'.request_id \notin DOMAIN redis)

\* C14: materialization round trip: stored whole under a fresh handle, and
\* returned bar for bar by the concatenated pages.
C14_RoundTrip == []C14_StoredWhole /\ [][C14_FreshHandle]_vars

\* A second materialization, of three bars or more, made while the result
\* of the first is still stored.
C14_Witness ==
    /\ resp.kind = "initial"
    /\ next_uuid = 2
    /\ resp.request_id = RequestId("s1", UuidStream[2])
    /\ Len(resp.computed) >= 3
    /\ RequestId("s1", UuidStream[1]) \in DOMAIN redis

\* ======================================================================
\* Properties of the aggregation kernel
\* ======================================================================
\* The bucket of a timestamp for width w: floor(timestamp / w) * w.
BucketOf(ts, w) == ts - (ts % w)

\* The rows of the kernel's input that fall in bucket b.
RowsOf(b) ==
    {i \in DOMAIN kernel.rows :
        BucketOf(kernel.rows[i].timestamp, kernel.aggregation_seconds) = b}

RECURSIVE SumVolume(_)
SumVolume(idx) ==
    IF idx = {} THEN 0
    ELSE LET i == CHOOSE x \in idx : TRUE
         IN kernel.rows[i].volume + SumVolume(idx \ {i})

\* C20: the kernel's output holds one bar per non-empty bucket, in bucket
\* order, and each bar has the open of its bucket's first row, the close of
\* its last row, the maximum high, the minimum low and the sum of the volumes.
C20_AggregationResult ==
    kernel.pc = "done" =>
        LET out == kernel.out
            buckets == {BucketOf(kernel.rows[i].timestamp, kernel.aggregation_seconds) :
                           i \in DOMAIN kernel.rows}
        IN /\ Len(out) = Cardinality(buckets)
           /\ \A k \in 1..(Len(out) - 1) : out[k].timestamp < out[k + 1].timestamp
           /\ \A k \in DOMAIN out :
                 LET idx == RowsOf(out[k].timestamp)
                     first == CHOOSE i \in idx : \A j \in idx : i <= j
                     final == CHOOSE i \in idx : \A j \in idx : i >= j
                 IN /\ out[k].timestamp \in buckets
                    /\ out[k].open = kernel.rows[first].open
                    /\ out[k].close = kernel.rows[final].close
                    /\ \E i \in idx : out[k].high = kernel.rows[i].high
                    /\ \A i \in idx : out[k].high >= kernel.rows[i].high
                    /\ \E i \in idx : out[k].low = kernel.rows[i].low
                    /\ \A i \in idx : out[k].low <= kernel.rows[i].low
                    /\ out[k].volume = SumVolume(idx)

\* A run that produced two bars, the first from two rows of which the later
\* one carries the higher high, for a width of two seconds or more.
C20_Witness ==
    /\ kernel.pc = "done"
    /\ kernel.aggregation_seconds >= 2
    /\ Len(kernel.out) = 2
    /\ Len(kernel.rows) = 3
    /\ Cardinality(RowsOf(kernel.out[1].timestamp)) = 2
    /\ kernel.rows[2].high > kernel.rows[1].high
    /\ kernel.rows[1].timestamp # kernel.rows[2].timestamp

\* The output bar the kernel put row i into.
BarOf(i) == kernel.out[kernel.bar_of[i]]

\* C21: every output bar starts at a multiple of the bucket width w, and
\* every input row t the kernel put into it has
\* bucket_start <= t < bucket_start + w.
C21_BucketAlignment ==
    kernel.pc = "done" =>
        LET w == kernel.aggregation_seconds
        IN /\ \A k \in DOMAIN kernel.out : kernel.out[k].timestamp % w = 0
           /\ \A i \in DOMAIN kernel.rows :
                 /\ BarOf(i).timestamp <= kernel.rows[i].timestamp
                 /\ kernel.rows[i].timestamp < BarOf(i).timestamp + w

\* A run whose first bucket starts before the first input timestamp, and
\* whose second bucket takes in two rows.
C21_Witness ==
    /\ kernel.pc = "done"
    /\ Len(kernel.rows) = 3
    /\ kernel.out[1].timestamp < kernel.rows[1].timestamp
    /\ kernel.bar_of = <<1, 2, 2>>
    /\ kernel.rows[2].timestamp < kernel.rows[3].timestamp

RECURSIVE SumOutVolume(_)
SumOutVolume(out) ==
    IF out = <<>> THEN 0 ELSE Head(out).volume + SumOutVolume(Tail(out))

\* C22: the volumes of the output bars add up to the volumes of the input
\* rows.
C22_VolumeConservation ==
    kernel.pc = "done" => SumOutVolume(kernel.out) = SumVolume(DOMAIN kernel.rows)

\* A run of three rows into two bars.
C22_Witness ==
    /\ kernel.pc = "done"
    /\ Len(kernel.rows) = 3
    /\ Len(kernel.out) = 2
    /\ SumOutVolume(kernel.out) > 3

WholeWidthRun ==
    /\ kernel.pc = "done"
    /\ Len(kernel.rows) = kernel.aggregation_seconds
    /\ \A i \in 1..(Len(kernel.rows) - 1) :
          kernel.rows[i + 1].timestamp = kernel.rows[i].timestamp + 1

\* The output is one bar, with the open of the first row and the close of
\* the last.
OneBarFirstOpenLastClose ==
    /\ Len(kernel.out) = 1
    /\ kernel.out[1].open = kernel.rows[1].open
    /\ kernel.out[1].close = kernel.rows[Len(kernel.rows)].close

\* C24 as stated: w consecutive one-second rows aggregated with width w,
\* from any starting timestamp, give exactly one bar, with the first open
\* and the last close.
C24_OneBarAnyStart == WholeWidthRun => OneBarFirstOpenLastClose

\* C24, amended: w consecutive one-second rows aggregated with width w,
\* starting at a multiple of w, give exactly one bar, with the first open
\* and the last close.
C24_OneBarAlignedStart ==
    (WholeWidthRun /\ kernel.rows[1].timestamp % kernel.aggregation_seconds = 0)
        => OneBarFirstOpenLastClose

\* Three consecutive rows from second 0 with width 3, the last closing
\* elsewhere than the first.
C24_Witness ==
    /\ WholeWidthRun
    /\ kernel.aggregation_seconds = Len(kernel.rows)
    /\ Len(kernel.rows) >= 2
    /\ kernel.rows[1].timestamp % kernel.aggregation_seconds = 0
    /\ kernel.rows[Len(kernel.rows)].close # kernel.rows[1].close

\* C25: a row starts a new output bar exactly when its timestamp is at
\* least the previous bucket start plus w; so there are as many bars as
\* distinct floor(t / w) over the input (never more than rows), their
\* timestamps strictly increase, and every bar's bucket holds a row.
C25_BucketCreation ==
    kernel.pc = "done" =>
        LET w == kernel.aggregation_seconds
            rows == kernel.rows
            out == kernel.out
        IN /\ \A i \in 2..Len(rows) :
                 (kernel.bar_of[i] # kernel.bar_of[i - 1])
                     <=> (rows[i].timestamp >= BarOf(i - 1).timestamp + w)
           /\ Len(out) = Cardinality({rows[i].timestamp \div w : i \in DOMAIN rows})
           /\ Len(out) <= Len(rows)
           /\ \A k \in 1..(Len(out) - 1) : out[k].timestamp < out[k + 1].timestamp
           /\ \A k \in DOMAIN out : RowsOf(out[k].timestamp) # {}

\* A run over a gap: the second bar starts more than one width after the
\* first, and a row sits exactly at a bucket start.
C25_Witness ==
    /\ kernel.pc = "done"
    /\ kernel.aggregation_seconds = 2
    /\ Len(kernel.out) = 2
    /\ kernel.out[2].timestamp > kernel.out[1].timestamp + kernel.aggregation_seconds
    /\ kernel.rows[Len(kernel.rows)].timestamp = kernel.out[2].timestamp

\* C26: for every bucket width, the kernel run on no row returns no bar
\* (a bar count of 0).
C26_EmptyInput ==
    (kernel.pc = "done" /\ kernel.rows = <<>>)
        => (kernel.out = <<>> /\ Len(kernel.out) = 0 /\ kernel.bar_of = <<>>)

\* The kernel was run on no row with a width above one second.
C26_Witness ==
    /\ kernel.pc = "done"
    /\ kernel.rows = <<>>
    /\ kernel.aggregation_seconds = MaxWidth

\* ======================================================================
\* Properties of the session sweep
\* ======================================================================
\* The session a key belongs to: session:{token}, chart_data:{token}:{uuid},
\* ohlc:{exchange}:{symbol}:1s:{day}:{token}.
OwnerOf(k) == IF k[1] = "ohlc" THEN k[6] ELSE k[2]

\* The keys of cache r under the namespace of a session.
KeysOf(r, session_token) == {k \in DOMAIN r : OwnerOf(k) = session_token}

\* A run of the sweep has ended in success with no traffic since its scan.
QuietRunDone == sweep.pc = "done" /\ sweep.undisturbed /\ sweep.status = "success"

\* C15: after a complete run with no concurrent traffic, a session whose
\* last heartbeat is older than the timeout has no key left under its
\* namespace, and every other session keeps its marker and all its keys
\* unchanged.
C15_SweepOutcome ==
    QuietRunDone =>
        \A i \in 1..issued :
            LET session_token == TokenStream[i]
                marker == SessionKey(session_token)
            IN marker \in DOMAIN sweep.at_scan =>
                 IF sweep.current_time - sweep.at_scan[marker].doc[1] > SESSION_TIMEOUT_SECONDS
                 THEN KeysOf(redis, session_token) = {}
                 ELSE \A k \in KeysOf(sweep.at_scan, session_token) :
                         k \in DOMAIN redis /\ redis[k] = sweep.at_scan[k]

\* C16: the sweep deletes a marker only if the last heartbeat stored at
\* the moment of the delete is older than the timeout.
C16_DeleteRecheck ==
    [][(sweep.pc = "expired" /\ sweep'.pc = "marker_deleted"
            /\ sweep.cur \in DOMAIN redis)
       => now - redis[sweep.cur].doc[1] > SESSION_TIMEOUT_SECONDS]_vars

\* C17: in no state has the sweep removed a session's marker while keys
\* that were under that session's namespace at the scan remain.
C17_BatchedDelete ==
    \A session_token \in sweep.cleaned :
        \A k \in KeysOf(redis, session_token) : k \notin DOMAIN sweep.at_scan

\* C18 (state part): a run right after a run without traffic, itself
\* without traffic or failure of redis, deletes nothing, changes no key and
\* reports success; and a run in which no redis call failed reports
\* success, whatever keys vanished under it.
C18_SecondRunState ==
    /\ (sweep.pc = "done" /\ sweep.streak = 1 /\ sweep.undisturbed /\ ~sweep.faulted)
          => (sweep.deleted = {} /\ sweep.status = "success" /\ redis = sweep.at_scan)
    /\ (sweep.pc = "done" /\ ~sweep.faulted) => sweep.status = "success"

\* C18 (step part): a key that vanished between the scan and the read is
\* passed over, and the delete of a key that vanished is a no-op.
C18_VanishedKeyStep ==
    /\ (sweep.pc = "loop" /\ sweep'.pc = "expired") => sweep'.cur \in DOMAIN redis
    /\ (sweep.pc = "expired" /\ sweep'.pc = "marker_deleted"
            /\ sweep.cur \notin DOMAIN redis)
          => (redis' = redis /\ sweep'.deleted = sweep.deleted)

\* C18: the sweep is idempotent and passes over vanished keys.
C18_SweepIdempotent == []C18_SecondRunState /\ [][C18_VanishedKeyStep]_vars

\* A second run without traffic, after a run that deleted a marker, with a
\* live session left in the cache.
C18_Witness ==
    /\ QuietRunDone
    /\ sweep.streak = 1
    /\ sweep.prev_deleted # {}
    /\ ScanSessions(redis) # {}

\* ======================================================================
\* Two calls of _get_and_prepare_1s_data_for_range side by side
\* ======================================================================
\* The route handlers are plain functions, run by the server on worker
\* threads: two calls interleave at their redis and vendor round trips.
Procs == 1..2

\* A call that has not yet made its batched read.
StartedCall ==
    [pc |-> "start", missing_dates |-> <<>>, hit_candles |-> <<>>,
     newly_fetched_data |-> <<>>, final_filtered_candles |-> <<>>]

\* A cache holding the day partitions of the days in D, as earlier calls
\* wrote them from the vendor content up (the other days have expired).
CachedDays(up, D) ==
    LET fetched == fetch_from_dtn_iq_api(up, 0, NumDays * DayLen - 1, "ok")
    IN PipelineExecute(EmptyRedis,
                       WriteBack(fetched, Ascending(D), "NASDAQ", "AAPL", "s1"))

InitRace ==
    /\ upstream \in UpstreamChoices
    /\ \E D \in SUBSET Days :
        /\ (upstream = {} => D = {})
        /\ redis = CachedDays(upstream, D)
    /\ last = NoCall
    /\ next_uuid = 0
    /\ resp = NoResp
    /\ now = 0
    /\ sweep = NoSweep
    /\ hb = NoHeartbeat
    /\ calls = NoCalls
    /\ kernel = NoKernel
    /\ issued = 0
    /\ VendorIdle

\* Two requests for the same (exchange, symbol, session, range) arrive.
RaceBegin ==
    /\ ~calls.active
    /\ \E session_token \in SessionTokens, exchange \in Exchanges, token \in Symbols,
          start_time \in Time, end_time \in Time :
        /\ start_time < end_time
        /\ calls' = [active |-> TRUE,
                     args |-> [session_token |-> session_token, exchange |-> exchange,
                               token |-> token, start_time |-> start_time,
                               end_time |-> end_time],
                     before |-> redis,
                     proc |-> [p \in Procs |-> StartedCall]]
    /\ UNCHANGED <<upstream, redis, servevars, sweepvars, kernelvars, taskvars, vendorvars>>

\* The series a call returns from what it has gathered.
Returned(all_1s_candles, args) ==
    FilterRange(SortByTimestamp(all_1s_candles), args.start_time, args.end_time)

\* redis_client.mget and the loop over its results; with nothing missing
\* the call sorts, clips and returns.
RaceRead(p) ==
    /\ calls.active
    /\ calls.proc[p].pc = "start"
    /\ LET args == calls.args
           days == date_range(args.start_time, args.end_time)
           cache_keys_to_check ==
               [i \in 1..Len(days) |->
                   build_ohlc_cache_key(args.exchange, args.token, "1s", days[i],
                                        args.session_token)]
           scan == ScanCached(MGet(redis, cache_keys_to_check), days, 1,
                              [all_1s_candles |-> <<>>, missing_dates |-> <<>>])
       IN calls' = [calls EXCEPT !.proc[p] =
                       IF scan.missing_dates = <<>>
                       THEN [@ EXCEPT !.pc = "returned",
                                      !.hit_candles = scan.all_1s_candles,
                                      !.final_filtered_candles =
                                          Returned(scan.all_1s_candles, args)]
                       ELSE [@ EXCEPT !.pc = "read",
                                      !.hit_candles = scan.all_1s_candles,
                                      !.missing_dates = scan.missing_dates]]
    /\ UNCHANGED <<upstream, redis, servevars, sweepvars, kernelvars, taskvars, vendorvars>>

\* The one vendor call for the span of the missing days.
RaceFetch(p) ==
    /\ calls.active
    /\ calls.proc[p].pc = "read"
    /\ \E outcome \in FetchOutcomes :
        LET missing_dates == calls.proc[p].missing_dates
        IN calls' = [calls EXCEPT !.proc[p] =
                        [@ EXCEPT !.pc = "fetched",
                                  !.newly_fetched_data =
                                      fetch_from_dtn_iq_api(upstream,
                                          DayStart(MinOf(missing_dates)),
                                          DayEnd(MaxOf(missing_dates)), outcome)]]
    /\ UNCHANGED <<upstream, redis, servevars, sweepvars, kernelvars, taskvars, vendorvars>>

\* The write-back of the fetched days in one pipeline, the extend, the sort
\* and the clip; the call returns.
RaceWrite(p) ==
    /\ calls.active
    /\ calls.proc[p].pc = "fetched"
    /\ LET args == calls.args
           me == calls.proc[p]
           writes == IF ShouldWriteBack(me.newly_fetched_data)
                     THEN WriteBack(me.newly_fetched_data, me.missing_dates,
                                    args.exchange, args.token, args.session_token)
                     ELSE <<>>
       IN /\ redis' = PipelineExecute(redis, writes)
          /\ calls' = [calls EXCEPT !.proc[p] =
                          [@ EXCEPT !.pc = "returned",
                                    !.final_filtered_candles =
                                        Returned(me.hit_candles \o me.newly_fetched_data,
                                                 args)]]
    /\ UNCHANGED <<upstream, servevars, sweepvars, kernelvars, taskvars, vendorvars>>

\* Both calls have returned; the cache stays as they left it.
RaceEnd ==
    /\ calls.active
    /\ \A p \in Procs : calls.proc[p].pc = "returned"
    /\ calls' = NoCalls
    /\ UNCHANGED <<upstream, redis, servevars, sweepvars, kernelvars, taskvars, vendorvars>>

NextRace ==
    \/ RaceBegin
    \/ \E p \in Procs : RaceRead(p)
    \/ \E p \in Procs : RaceFetch(p)
    \/ \E p \in Procs : RaceWrite(p)
    \/ RaceEnd

SpecRace == InitRace /\ [][NextRace]_vars

\* ---------------------------------------------- properties of the race
\* The same call run alone from the cache the two calls started with, its
\* vendor call ending in outcome o.
Alone(o) ==
    Resolve(calls.before, upstream, calls.args.session_token, calls.args.exchange,
            calls.args.token, calls.args.start_time, calls.args.end_time, o)

BothReturned == calls.active /\ \A p \in Procs : calls.proc[p].pc = "returned"

\* Each of the two calls returns the series of a call run alone.
RaceSameSeries ==
    BothReturned =>
        \A p \in Procs : \E o \in FetchOutcomes :
            calls.proc[p].final_filtered_candles = Alone(o).final_filtered_candles

\* The cache the two calls leave is the cache a single call leaves.
RaceSameCache ==
    BothReturned => \E o \in FetchOutcomes : redis = Alone(o).after

\* A step changes the cache only by setting day keys of the request to
\* the vendor's rows of that day, whatever the key held before.
RaceWholeValueSets ==
    \A k \in DOMAIN redis' :
        \/ k \in DOMAIN redis /\ redis'[k] = redis[k]
        \/ /\ k[1] = "ohlc"
           /\ k[5] \in Days
           /\ LET group == fetch_from_dtn_iq_api(upstream, DayStart(k[5]), DayEnd(k[5]), "ok")
              IN redis'[k] = JsonDumps([j \in 1..Len(group) |-> CacheRecord(group[j])])

\* C19: under every interleaving of two calls for the same request, each
\* returns the series of a call run alone, every cache write is a
\* whole-value set on a day key, and the final cache is the cache a single
\* call leaves.
C19_RacingResolves ==
    [](RaceSameSeries /\ RaceSameCache) /\ [][RaceWholeValueSets]_vars

\* ======================================================================
\* Queries of every interval against every upstream condition
\* ======================================================================
\* How the one call to the vendor ends: it answers ("ok"), or it raises
\* NoDataError ("no_data"), UnauthorizedError ("unauthorized") or another
\* exception, or the connection cannot be had ("error").
UpstreamConditions == {"ok", "no_data", "unauthorized", "error"}

\* The intervals a query may name: "1d" is in INTERVAL_SECONDS_MAP, "1w"
\* is not.
QueryIntervals == {"1s", "5s", "1d", "1w"}

\* get_initial_historical_data for any interval, with the default limit;
\* the response keeps the interval that was asked for.  Queries are
\* followed up to the first one that is materialized.
Query ==
    /\ resp = NoResp
    /\ next_uuid = 0
    /\ \E session_token \in SessionTokens, exchange \in Exchanges, token \in Symbols,
          start_time \in Time, end_time \in Time, outcome \in UpstreamConditions :
        /\ start_time < end_time
        /\ last' = Resolve(redis, upstream, session_token, exchange, token,
                           start_time, end_time, outcome)
        /\ \E interval_val \in QueryIntervals :
             \E p \in {ProcessFullData(last'.after, last'.final_filtered_candles,
                                       session_token, interval_val,
                                       UuidStream[next_uuid + 1])} :
                /\ redis' = p.redis
                /\ next_uuid' = IF p.stored THEN next_uuid + 1 ELSE next_uuid
                /\ \E response \in {InitialResponse(p, MaxLimit)} :
                      resp' = Join(response, [interval_val |-> interval_val])
        /\ UNCHANGED <<upstream, sweepvars, racevars, kernelvars, taskvars, vendorvars>>

\* A day partition expires while no call is on record.
ExpirePartition == ~last.called /\ Expire

NextQuery == Query \/ Deliver \/ ExpirePartition \/ ExpireResult

\* The caches a query is put to: empty, holding the first day only, or
\* holding every day, as earlier calls wrote them.
CachedDayChoices == {{}, {0}, Days}

InitQuery ==
    /\ upstream \in UpstreamChoices
    /\ \E D \in CachedDayChoices :
        /\ (upstream = {} => D = {})
        /\ redis = CachedDays(upstream, D)
    /\ last = NoCall
    /\ next_uuid = 0
    /\ resp = NoResp
    /\ now = 0
    /\ sweep = NoSweep
    /\ hb = NoHeartbeat
    /\ calls = NoCalls
    /\ kernel = NoKernel
    /\ issued = 0
    /\ VendorIdle

SpecQuery == InitQuery /\ [][NextQuery]_vars

\* ---------------------------------------------- properties of a query
\* A query has been answered and its response not yet delivered.
Answered == resp.kind = "initial" /\ last.called /\ "interval_val" \in DOMAIN resp

\* The vendor call of the query on record ended in the condition given.
FetchEnded(condition) ==
    \E i \in DOMAIN last.fetches : last.fetches[i].outcome = condition

\* C27: when the upstream fetch raises the unauthorized condition, the
\* request fails; it is not answered with a successful response.
C27_UnauthorizedPropagates ==
    (Answered /\ FetchEnded("unauthorized")) => resp.status # 200

\* Neither the cache nor the vendor held a bar in the range of the query
\* on record.
NoBarInRange ==
    /\ upstream \cap (last.args.start_time..last.args.end_time) = {}
    /\ \A i \in DOMAIN last.hit_candles :
          \/ last.hit_candles[i].timestamp < last.args.start_time
          \/ last.hit_candles[i].timestamp > last.args.end_time

\* The keys of materialized results in cache r.
ResultKeys(r) == {k \in DOMAIN r : HasChartDataPrefix(k)}

\* C28: when cache and upstream hold no bar in [start, end], the query is
\* answered with success: no bar, total_available 0, is_partial false, no
\* handle; and no materialized result is stored.
C28_NoDataIsSuccess ==
    (Answered /\ NoBarInRange) =>
        /\ resp.status = 200
        /\ resp.candles = <<>>
        /\ resp.total_available = 0
        /\ ~resp.is_partial
        /\ resp.request_id = NoRequestId
        /\ ResultKeys(redis) = ResultKeys(last.before)

\* The vendor holds bars, all outside the range asked for, and the vendor
\* call answered.
C28_Witness ==
    /\ Answered
    /\ NoBarInRange
    /\ upstream # {}
    /\ FetchEnded("ok")
    /\ resp.interval_val = "5s"

\* C29: a query whose interval is not a supported one is rejected as a
\* bad request, whatever the cache and the vendor hold.
C29_UnsupportedRejected ==
    (Answered /\ resp.interval_val # "1s" /\ INTERVAL_SECONDS_MAP(resp.interval_val) = 0)
        => resp.status = 400

\* C30: the bars a query with interval 1d returns come from a daily fetch,
\* not from an aggregation of the 1-second base series.
C30_DailyFetchedDirectly ==
    (Answered /\ resp.interval_val = "1d" /\ resp.candles # <<>>) =>
        /\ resp.aggregations = 0
        /\ \A i \in DOMAIN last.fetches : last.fetches[i].interval_val = "1d"

\* ======================================================================
\* Round trips and writes of one resolve call
\* ======================================================================
\* The day keys of the request on record, one per calendar day from the
\* day of start_time to the day of end_time.
DayKeysOf(args) ==
    [i \in 1..(DateOf(args.end_time) - DateOf(args.start_time) + 1) |->
        <<"ohlc", args.exchange, args.token, "1s", DateOf(args.start_time) + i - 1,
          args.session_token>>]

\* C31: a call makes exactly one batched read, of one key per calendar day
\* of the range, at most one upstream fetch and at most one batched write,
\* however many days the range spans.
C31_BoundedRoundTrips ==
    last.called =>
        /\ Len(last.reads) = 1
        /\ last.reads[1] = DayKeysOf(last.args)
        /\ Len(last.fetches) <= 1
        /\ Len(last.pipelines) <= 1

\* A call over every day of the period that read, fetched and wrote: one
\* read of NumDays keys, one fetch, one pipeline of two sets or more.
C31_Witness ==
    /\ last.called
    /\ Len(last.reads[1]) = NumDays
    /\ Len(last.fetches) = 1
    /\ Len(last.pipelines) = 1
    /\ Len(last.pipelines[1]) >= 2

\* The value under key k was a hit of the batched read: present and
\* parse-able.
WasHit(k) == k \in DOMAIN last.before /\ JsonParses(last.before[k])

\* C34: a call writes only day keys of its own session, symbol and
\* exchange, for days of its range that were not parse-able hits of its
\* batched read; every other key is left as it was, and with every day a
\* hit nothing is written.
C34_WritesOnlyMissingDays ==
    last.called =>
        LET keys == {DayKeysOf(last.args)[i] : i \in DOMAIN DayKeysOf(last.args)}
            written == {last.writes[i].key : i \in DOMAIN last.writes}
        IN /\ written \subseteq keys
           /\ \A k \in written : ~WasHit(k)
           /\ \A k \in DOMAIN last.after :
                 k \notin written => (k \in DOMAIN last.before /\ last.after[k] = last.before[k])
           /\ (\A k \in keys : WasHit(k)) => (last.writes = <<>> /\ last.after = last.before)

\* A call that wrote the two outer days of its range around a day that
\* was a hit.
C34_Witness ==
    /\ last.called
    /\ Len(last.writes) = 2
    /\ \E d \in Days :
          /\ WasHit(<<"ohlc", last.args.exchange, last.args.token, "1s", d,
                      last.args.session_token>>)
          /\ d > MinOf(last.missing_dates)
          /\ d < MaxOf(last.missing_dates)

\* ======================================================================
\* Heartbeat against the sweep
\* ======================================================================
\* The session markers of the cache r.
MarkersOf(r) == {k \in DOMAIN r : k[1] = "session"}

\* A heartbeat that found no marker creates none: a step that starts and
\* ends with no heartbeat in flight and issues no session adds no marker.
C33_AbsentStaysAbsent ==
    (hb.pc = "idle" /\ hb'.pc = "idle" /\ issued' = issued)
        => MarkersOf(redis') \subseteq MarkersOf(redis)

\* No step taken while a heartbeat is in flight puts back a marker that
\* the running sweep has deleted.
C33_DeletedStaysDeleted ==
    (hb.pc = "found" /\ SessionKey(hb.token) \in sweep.deleted
            /\ SessionKey(hb.token) \notin DOMAIN redis)
        => SessionKey(hb.token) \notin DOMAIN redis'

\* C33: a heartbeat for a token without marker creates no marker, and once
\* the sweep has deleted a session's marker no later step of a heartbeat in
\* flight for that token creates it again.
C33_NoResurrection == [][C33_AbsentStaysAbsent /\ C33_DeletedStaysDeleted]_vars

\* ======================================================================
\* The vendor client module (dtn_iq_client.py)
\* ======================================================================
\* What a connection to the admin port can come to: connected, connect()
\* returned with `connected` false, the connection was refused, any other
\* exception.
CheckOutcomes == {"connected", "not_connected", "refused", "exception"}

\* What FeedService(...).launch() and HistoryConn(...) can come to.
CallOutcomes == {"ok", "raises"}

\* settings.DTN_PRODUCT_ID, DTN_LOGIN, DTN_PASSWORD: all set, or not.
CredentialChoices == {"complete", "incomplete"}

\* Python's None, for the error on record.
None == <<>>

\* _check_admin_port_connectivity: (True, None) when connected, (False,
\* message) otherwise; no exception leaves it.
check_admin_port_connectivity(outcome) ==
    IF outcome = "connected" THEN <<TRUE, None>> ELSE <<FALSE, <<outcome>>>>

\* A slip: the flag is left as it was when the credentials are missing.
CredentialsMissing_FlagKept(g) ==
    [g EXCEPT !.iqfeed_launch_error = <<"credentials">>]

\* Lines 57-61: the credentials are not fully configured.
CredentialsMissing(g) ==
    [g EXCEPT !.iqfeed_launch_error = <<"credentials">>,
              !.is_iqfeed_service_launched = FALSE]

\* Lines 63-93: the feed service is launched and the admin port checked.
LaunchFeedService(g, launch, after) ==
    IF launch = "raises"
    THEN [g EXCEPT !.iqfeed_launch_error = <<"launch_exception">>,
                   !.is_iqfeed_service_launched = FALSE,
                   !.feed_services = @ + 1]
    ELSE IF check_admin_port_connectivity(after)[1]
    THEN [g EXCEPT !.is_iqfeed_service_launched = TRUE,
                   !.iqfeed_launch_error = None,
                   !.feed_services = @ + 1,
                   !.checks = @ + 1]
    ELSE [g EXCEPT !.iqfeed_launch_error =
                        <<"connect_failed", check_admin_port_connectivity(after)[2]>>,
                   !.is_iqfeed_service_launched = FALSE,
                   !.feed_services = @ + 1,
                   !.checks = @ + 1]

\* Lines 54-96: a fresh attempt: the error is reset, then either the
\* credentials are missing or the feed service is launched.
LaunchAttempt(g, launch, after) ==
    LET fresh == [g EXCEPT !.iqfeed_launch_error = None, !.attempts = @ + 1]
    IN IF g.credentials = "incomplete"
       THEN CredentialsMissing(fresh)
       ELSE LaunchFeedService(fresh, launch, after)

\* launch_iqfeed_service_if_needed(force_launch_attempt): a client marked
\* launched is verified first, unless the attempt is forced; one that still
\* answers is left alone.
launch_iqfeed_service_if_needed(g, force_launch_attempt, verify, launch, after) ==
    IF g.is_iqfeed_service_launched /\ ~force_launch_attempt
    THEN IF check_admin_port_connectivity(verify)[1]
         THEN [g EXCEPT !.checks = @ + 1]
         ELSE LaunchAttempt([g EXCEPT !.is_iqfeed_service_launched = FALSE,
                                      !.checks = @ + 1], launch, after)
    ELSE LaunchAttempt(g, launch, after)

\* A slip: a live check that passes leaves the flag as it was.
LiveCheckPassed_FlagKept(g) == g

\* Lines 117-122: the live check passed; the flag is brought up to date.
LiveCheckPassed(g) ==
    IF ~g.is_iqfeed_service_launched
    THEN [g EXCEPT !.is_iqfeed_service_launched = TRUE, !.iqfeed_launch_error = None]
    ELSE g

\* Lines 125-137: a HistoryConn is made when the service is marked
\* launched; None when it is not, or when the constructor raises.
HistoryConn(g, hist) ==
    IF g.is_iqfeed_service_launched /\ hist = "ok" THEN "hist_conn" ELSE "None"

\* get_iqfeed_history_conn: a live check, one forced launch attempt when it
\* fails, then the connection or None.
get_iqfeed_history_conn(g, live, launch, after, hist) ==
    LET checked == [g EXCEPT !.checks = @ + 1]
    IN IF ~check_admin_port_connectivity(live)[1]
       THEN LET relaunched ==
                   launch_iqfeed_service_if_needed(
                       [checked EXCEPT !.is_iqfeed_service_launched = FALSE,
                                       !.relaunches = @ + 1],
                       TRUE, live, launch, after)
            IN [relaunched EXCEPT !.returned =
                    IF ~relaunched.is_iqfeed_service_launched THEN "None"
                    ELSE HistoryConn(relaunched, hist)]
       ELSE [LiveCheckPassed(checked) EXCEPT
                !.returned = HistoryConn(LiveCheckPassed(checked), hist)]

\* The module as imported: not launched, no error; with it the record of
\* the call in hand: the checks made, the launch attempts, the feed
\* services started, the forced relaunches and the value returned.
ClientLoaded(credentials) ==
    [loaded |-> TRUE, credentials |-> credentials,
     is_iqfeed_service_launched |-> FALSE, iqfeed_launch_error |-> None,
     op |-> "", force_launch_attempt |-> FALSE, live |-> "",
     was_launched |-> FALSE,
     checks |-> 0, attempts |-> 0, feed_services |-> 0, relaunches |-> 0,
     returned |-> ""]

\* The record of a call about to run on the module state g.
Entering(g, op, force_launch_attempt, live) ==
    [g EXCEPT !.op = op, !.force_launch_attempt = force_launch_attempt,
              !.live = live, !.was_launched = g.is_iqfeed_service_launched,
              !.checks = 0, !.attempts = 0, !.feed_services = 0,
              !.relaunches = 0, !.returned = ""]

InitClient ==
    /\ upstream = {}
    /\ redis = EmptyRedis
    /\ last = NoCall
    /\ next_uuid = 0
    /\ resp = NoResp
    /\ now = 0
    /\ sweep = NoSweep
    /\ hb = NoHeartbeat
    /\ calls = NoCalls
    /\ kernel = NoKernel
    /\ issued = 0
    /\ task = NoTask
    /\ fetch = NoFetch
    /\ keepalive = NoKeepAlive
    /\ \E credentials \in CredentialChoices : client = ClientLoaded(credentials)

\* main.py line 80 and any later caller: launch_iqfeed_service_if_needed.
LaunchCall ==
    /\ \E force_launch_attempt \in BOOLEAN, verify \in CheckOutcomes,
          launch \in CallOutcomes, after \in CheckOutcomes :
          client' = launch_iqfeed_service_if_needed(
                        Entering(client, "launch_iqfeed_service_if_needed",
                                 force_launch_attempt, verify),
                        force_launch_attempt, verify, launch, after)
    /\ UNCHANGED <<upstream, redis, servevars, sweepvars, racevars, kernelvars,
                   taskvars, fetch, keepalive>>

\* historical_data_service.py line 83: get_iqfeed_history_conn.
HistoryConnCall ==
    /\ \E live \in CheckOutcomes, launch \in CallOutcomes,
          after \in CheckOutcomes, hist \in CallOutcomes :
          client' = get_iqfeed_history_conn(
                        Entering(client, "get_iqfeed_history_conn", FALSE, live),
                        live, launch, after, hist)
    /\ UNCHANGED <<upstream, redis, servevars, sweepvars, racevars, kernelvars,
                   taskvars, fetch, keepalive>>

NextClient == LaunchCall \/ HistoryConnCall

SpecClient == InitClient /\ [][NextClient]_vars

\* C36: after any sequence of calls a client marked launched has no error
\* on record, and a launch attempt made with incomplete credentials leaves
\* the flag false, an error on record and no feed service started.
C36_ConnectionState ==
    /\ client.is_iqfeed_service_launched => client.iqfeed_launch_error = None
    /\ (client.credentials = "incomplete" /\ client.attempts > 0)
          => /\ ~client.is_iqfeed_service_launched
             /\ client.iqfeed_launch_error # None
             /\ client.feed_services = 0

\* A forced launch attempt with incomplete credentials on a client that
\* was marked launched.
C36_Witness ==
    /\ client.op = "launch_iqfeed_service_if_needed"
    /\ client.credentials = "incomplete"
    /\ client.was_launched
    /\ client.attempts = 1

\* C37: get_iqfeed_history_conn returns a connection only with the flag
\* true; after a failed live check it has made exactly one forced launch
\* attempt, and returns None with the flag false unless that attempt
\* confirmed the service; after a live check that passed the flag is true
\* and nothing was launched.
C37_HistoryConn ==
    client.op = "get_iqfeed_history_conn" =>
        /\ client.returned = "hist_conn" => client.is_iqfeed_service_launched
        /\ client.live # "connected" =>
              /\ client.relaunches = 1
              /\ client.attempts = 1
              /\ client.feed_services <= 1
              /\ ~client.is_iqfeed_service_launched => client.returned = "None"
              /\ client.is_iqfeed_service_launched => client.feed_services = 1
        /\ client.live = "connected" =>
              /\ client.is_iqfeed_service_launched
              /\ client.relaunches = 0
              /\ client.attempts = 0
              /\ client.feed_services = 0

\* A failed live check on a client marked launched, a relaunch that
\* brought the service back, and the connection returned.
C37_Witness ==
    /\ client.op = "get_iqfeed_history_conn"
    /\ client.live # "connected"
    /\ client.was_launched
    /\ client.relaunches = 1
    /\ client.returned = "hist_conn"

\* ======================================================================
\* The keep-alive script (iqfeed_keep_alive.py)
\* ======================================================================
\* The seconds waited between two connection attempts (15 in the script).
WaitSeconds == 2

\* What ends a connection attempt or a monitored connection: the except
\* clauses of lines 126-138.
ConnectionErrors ==
    {"ConnectionRefusedError", "ConnectionResetError", "socket.timeout",
     "socket.error", "RuntimeError", "Exception"}

\* What os.remove(ctrl_file) can come to (lines 168-172).
RemoveOutcomes == {"removed", "OSError"}

\* A slip: the monitoring loop never looks at the control file.
MonitorSeesFile_Never(ctrl_file) == FALSE

\* Line 111: `while not os.path.isfile(ctrl_file)` of the monitoring loop.
MonitorSeesFile(ctrl_file) == ctrl_file

\* Lines 167-172: the control file after the cleanup: gone, or still there
\* when os.remove raised OSError.
Remove(ctrl_file, outcome) == ctrl_file /\ outcome = "OSError"

\* The script after its initial launch, at the head of the main loop:
\* where it is, whether the control file exists, whether a check has seen
\* it, the second of the wait, the last error, the reader thread.
KeepAliveStarted(ctrl_file, nohup, headless) ==
    [pc |-> "head", ctrl_file |-> ctrl_file, detected |-> FALSE, waited |-> 0,
     error |-> "", reader_running |-> FALSE, remove |-> "",
     nohup |-> nohup, headless |-> headless]

InitKeepAlive ==
    /\ upstream = {}
    /\ redis = EmptyRedis
    /\ last = NoCall
    /\ next_uuid = 0
    /\ resp = NoResp
    /\ now = 0
    /\ sweep = NoSweep
    /\ hb = NoHeartbeat
    /\ calls = NoCalls
    /\ kernel = NoKernel
    /\ issued = 0
    /\ task = NoTask
    /\ fetch = NoFetch
    /\ client = NoClient
    /\ \E ctrl_file \in BOOLEAN, nohup \in BOOLEAN, headless \in BOOLEAN :
          keepalive = KeepAliveStarted(ctrl_file, nohup, headless)

\* What the steps of the script leave alone.
KeepAliveFrame ==
    UNCHANGED <<upstream, redis, servevars, sweepvars, racevars, kernelvars,
                taskvars, fetch, client>>

\* Line 75: the head of the main loop.
LoopHead ==
    /\ keepalive.pc = "head"
    /\ keepalive' =
          IF keepalive.ctrl_file
          THEN [keepalive EXCEPT !.pc = "cleanup", !.detected = TRUE]
          ELSE [keepalive EXCEPT !.pc = "connect"]
    /\ KeepAliveFrame

\* Lines 76-107: the launch check, whose failure is logged and passed over,
\* then the admin connection: established, or ended by an exception and the
\* finally block.
Connect ==
    /\ keepalive.pc = "connect"
    /\ \/ keepalive' = [keepalive EXCEPT !.pc = "monitor", !.error = "",
                                         !.reader_running = TRUE]
       \/ \E e \in ConnectionErrors :
             keepalive' = [keepalive EXCEPT !.pc = "failed", !.error = e,
                                            !.reader_running = FALSE]
    /\ KeepAliveFrame

\* Lines 111-124 and the finally block: one turn of the monitoring loop.
\* The control file ends it; a dead reader thread raises
\* ConnectionResetError; otherwise the loop sleeps and turns again.
Monitor ==
    /\ keepalive.pc = "monitor"
    /\ \/ /\ MonitorSeesFile(keepalive.ctrl_file)
          /\ keepalive' = [keepalive EXCEPT !.pc = "cleanup", !.detected = TRUE,
                                            !.reader_running = FALSE]
       \/ /\ ~MonitorSeesFile(keepalive.ctrl_file)
          /\ ~keepalive.reader_running
          /\ keepalive' = [keepalive EXCEPT !.pc = "failed",
                                            !.error = "ConnectionResetError"]
    /\ KeepAliveFrame

\* Lines 154-157: after an error, the control file ends the loop; without
\* it the wait begins.
AfterError ==
    /\ keepalive.pc = "failed"
    /\ keepalive' =
          IF keepalive.ctrl_file
          THEN [keepalive EXCEPT !.pc = "cleanup", !.detected = TRUE]
          ELSE [keepalive EXCEPT !.pc = "wait", !.waited = 0]
    /\ KeepAliveFrame

\* Lines 158-162: one second of the wait.
Wait ==
    /\ keepalive.pc = "wait"
    /\ keepalive' =
          IF keepalive.waited = WaitSeconds
          THEN [keepalive EXCEPT !.pc = "after_wait"]
          ELSE IF keepalive.ctrl_file
          THEN [keepalive EXCEPT !.pc = "after_wait", !.detected = TRUE]
          ELSE [keepalive EXCEPT !.waited = @ + 1]
    /\ KeepAliveFrame

\* Lines 163-164: the check after the wait.
AfterWait ==
    /\ keepalive.pc = "after_wait"
    /\ keepalive' =
          IF keepalive.ctrl_file
          THEN [keepalive EXCEPT !.pc = "cleanup", !.detected = TRUE]
          ELSE [keepalive EXCEPT !.pc = "head", !.waited = 0]
    /\ KeepAliveFrame

\* Lines 166-174: the control file is removed if it exists, and the script
\* ends.
Cleanup ==
    /\ keepalive.pc = "cleanup"
    /\ \E outcome \in RemoveOutcomes :
          /\ (~keepalive.ctrl_file => outcome = "removed")
          /\ keepalive' = [keepalive EXCEPT
                              !.pc = "finished",
                              !.remove = IF keepalive.ctrl_file THEN outcome ELSE "",
                              !.ctrl_file = Remove(keepalive.ctrl_file, outcome)]
    /\ KeepAliveFrame

\* The operator creates the control file while the script runs.
TouchControlFile ==
    /\ keepalive.pc \notin {"off", "finished"}
    /\ ~keepalive.ctrl_file
    /\ keepalive' = [keepalive EXCEPT !.ctrl_file = TRUE]
    /\ KeepAliveFrame

\* The reader thread of the admin connection ends (the connection is lost).
ReaderStops ==
    /\ keepalive.pc = "monitor"
    /\ keepalive.reader_running
    /\ keepalive' = [keepalive EXCEPT !.reader_running = FALSE]
    /\ KeepAliveFrame

\* The steps of the script itself.
KeepAliveStep ==
    LoopHead \/ Connect \/ Monitor \/ AfterError \/ Wait \/ AfterWait \/ Cleanup

NextKeepAlive ==
    \/ LoopHead \/ Connect \/ Monitor \/ AfterError \/ Wait \/ AfterWait \/ Cleanup
    \/ TouchControlFile \/ ReaderStops

SpecKeepAlive == InitKeepAlive /\ [][NextKeepAlive]_vars

\* The script is a running process: a step it can take, it takes. Neither
\* the operator nor the connection owes anything.
SpecKeepAliveFair == SpecKeepAlive /\ WF_vars(KeepAliveStep)

\* The main loop has been left.
LoopLeft == keepalive.pc \in {"cleanup", "finished"}

\* Once a check has seen the control file no connection attempt starts.
NoAttemptAfterDetection ==
    keepalive.detected => (keepalive'.pc = "connect" => keepalive.pc = "connect")

\* Without the control file the loop is not left after an error.
NoExitWithoutFile ==
    (keepalive.pc \in {"failed", "wait", "after_wait"} /\ ~keepalive.ctrl_file)
        => ~(keepalive'.pc \in {"cleanup", "finished"})

\* The script ends with the control file gone.
EndsWithFileRemoved ==
    (keepalive.pc = "cleanup" /\ keepalive'.pc = "finished") => ~keepalive'.ctrl_file

\* The script ends with the control file gone, unless os.remove raised
\* OSError.
EndsWithFileRemovedOrError ==
    (keepalive.pc = "cleanup" /\ keepalive'.pc = "finished")
        => (~keepalive'.ctrl_file \/ keepalive'.remove = "OSError")

\* C38 as stated: once the control file exists the loop is eventually left,
\* from every state, with no connection attempt begun after the check that
\* saw the file, and the script ends with the file removed; without the
\* file an error is followed by a retry, not by an exit.
C38_LoopTerminates ==
    /\ (keepalive.ctrl_file ~> LoopLeft)
    /\ [][NoAttemptAfterDetection /\ NoExitWithoutFile /\ EndsWithFileRemoved]_vars
    /\ (keepalive.pc = "failed" ~> (keepalive.pc = "connect" \/ LoopLeft))

\* C38, amended: the same, the file being removed at the end unless
\* os.remove raised OSError, which is logged.
C38_LoopTerminatesFileRemovedUnlessOSError ==
    /\ (keepalive.ctrl_file ~> LoopLeft)
    /\ [][NoAttemptAfterDetection /\ NoExitWithoutFile
            /\ EndsWithFileRemovedOrError]_vars
    /\ (keepalive.pc = "failed" ~> (keepalive.pc = "connect" \/ LoopLeft))

\* The script has ended and removed the control file, which it saw during
\* the wait that followed a connection error.
C38_Witness ==
    /\ keepalive.pc = "finished"
    /\ keepalive.detected
    /\ keepalive.remove = "removed"
    /\ ~keepalive.ctrl_file
    /\ keepalive.error # ""
    /\ keepalive.waited > 0

\* ======================================================================
\* fetch_from_dtn_iq_api, for any interval
\* ======================================================================
\* The intervals a caller may pass: two intraday ones, the daily one and
\* one that maps to nothing.
FetchIntervals == {"1s", "5m", "1d", "1w"}

\* map_interval_to_iqfeed_params: every interval ending in s, m or h maps
\* to one-second bars; "1d" and anything else to None.
map_interval_to_iqfeed_params(interval_val) ==
    IF interval_val \in {"1s", "5m"}
    THEN [interval_type |-> "s", interval_len |-> 1]
    ELSE None

\* request_daily_data_for_dates(bgn_dt, end_dt): one bar per day that
\* traded, with a `date` and no `time`.
request_daily_data_for_dates(up, bgn_dt, end_dt) ==
    Ascending({d \in Days : /\ d >= bgn_dt
                            /\ d <= end_dt
                            /\ \E t \in up : DateOf(t) = d})

\* Lines 138-142 for a datetime64[D] response: start_time and end_time are
\* cut to their day before the mask is taken; lines 149-151: the date
\* becomes the timestamp, at midnight.
DailyBars(dates, start_time, end_time) ==
    LET kept == SelectSeq(dates, LAMBDA d : d >= DateOf(start_time) /\ d <= DateOf(end_time))
    IN [i \in 1..Len(kept) |-> UpstreamBar(DayStart(kept[i]))]

\* Lines 189-197: the exceptions of the request and of the parsing that the
\* function catches and logs.
Caught(condition) == condition \in {"no_data", "unauthorized", "error"}

\* fetch_from_dtn_iq_api(trading_symbol, interval_val, start_time,
\* end_time) with the connection hist_conn and the vendor in the given
\* condition: whether an exception left it, and the bars returned.
FetchAny(up, interval_val, start_time, end_time, hist_conn, condition) ==
    IF hist_conn = "None" THEN [raised |-> FALSE, candles |-> <<>>]
    ELSE IF interval_val # "1d" /\ map_interval_to_iqfeed_params(interval_val) = None
    THEN [raised |-> FALSE, candles |-> <<>>]
    ELSE IF condition # "ok"
    THEN [raised |-> ~Caught(condition), candles |-> <<>>]
    ELSE IF interval_val = "1d"
    THEN [raised |-> FALSE,
          candles |-> DailyBars(request_daily_data_for_dates(
                                    up, DateOf(start_time), DateOf(end_time)),
                                start_time, end_time)]
    ELSE [raised |-> FALSE,
          candles |-> fetch_from_dtn_iq_api(up, start_time, end_time, "ok")]

InitFetch ==
    /\ upstream \in UpstreamChoices
    /\ redis = EmptyRedis
    /\ last = NoCall
    /\ next_uuid = 0
    /\ resp = NoResp
    /\ now = 0
    /\ sweep = NoSweep
    /\ hb = NoHeartbeat
    /\ calls = NoCalls
    /\ kernel = NoKernel
    /\ issued = 0
    /\ task = NoTask
    /\ fetch = NoFetch
    /\ keepalive = NoKeepAlive
    /\ client = ClientLoaded("complete")

\* One call of fetch_from_dtn_iq_api: the connection is asked of the client
\* module (line 83), then the vendor is asked and the answer parsed.
FetchCall ==
    /\ ~fetch.called
    /\ \E live \in {"connected", "refused"}, after \in {"connected", "refused"},
          hist \in CallOutcomes :
          client' = get_iqfeed_history_conn(
                        Entering(client, "get_iqfeed_history_conn", FALSE, live),
                        live, "ok", after, hist)
    /\ \E interval_val \in FetchIntervals, start_time \in Time, end_time \in Time,
          condition \in UpstreamConditions :
          /\ start_time <= end_time
          /\ \E f \in {FetchAny(upstream, interval_val, start_time, end_time,
                                client'.returned, condition)} :
                fetch' = [called |-> TRUE, interval_val |-> interval_val,
                          start_time |-> start_time, end_time |-> end_time,
                          hist_conn |-> client'.returned, condition |-> condition,
                          raised |-> f.raised, candles |-> f.candles]
    /\ UNCHANGED <<upstream, redis, servevars, sweepvars, racevars, kernelvars,
                   taskvars, keepalive>>

\* The caller has taken the list returned.
FetchReturn ==
    /\ fetch.called
    /\ fetch' = NoFetch
    /\ UNCHANGED <<upstream, redis, servevars, sweepvars, racevars, kernelvars,
                   taskvars, client, keepalive>>

NextFetch == FetchCall \/ FetchReturn

SpecFetch == InitFetch /\ [][NextFetch]_vars

\* The call could not get its bars: no connection, an interval that maps
\* to nothing, or a request that raised.
CouldNotFetch ==
    \/ fetch.hist_conn = "None"
    \/ fetch.interval_val = "1w"
    \/ fetch.condition # "ok"

\* C35: no exception leaves fetch_from_dtn_iq_api; without a connection,
\* with an interval that maps to nothing, with nothing upstream or after any
\* exception it returns []; and every bar it returns has
\* start_time <= timestamp <= end_time.
C35_NeverRaisesBarsInRange ==
    fetch.called =>
        /\ ~fetch.raised
        /\ CouldNotFetch => fetch.candles = <<>>
        /\ \A i \in DOMAIN fetch.candles :
              /\ fetch.start_time <= fetch.candles[i].timestamp
              /\ fetch.candles[i].timestamp <= fetch.end_time

\* The part of the claim that holds: no exception leaves the call, and a
\* failed call returns [].
FetchNeverRaises ==
    fetch.called => (~fetch.raised /\ (CouldNotFetch => fetch.candles = <<>>))

\* The intraday part of the claim that holds: every bar of an intraday
\* call lies between start_time and end_time.
FetchIntradayInRange ==
    (fetch.called /\ fetch.interval_val # "1d") =>
        \A i \in DOMAIN fetch.candles :
            /\ fetch.start_time <= fetch.candles[i].timestamp
            /\ fetch.candles[i].timestamp <= fetch.end_time

\* ======================================================================
\* The fan-out task (data_processing_tasks.py)
\* ======================================================================
\* The keys of the task's INTERVAL_SECONDS_MAP, in the order of the dict
\* (three of the fourteen: the base interval, an intraday one, the day).
StandardIntervals == <<"1s", "5s", "1d">>

\* The intervals a request may have named: the standard ones and one that
\* is not standard.
RequestedIntervals == {"1s", "5s", "1d", "1w"}

\* f"{request_id_prefix}:{interval}"
TargetCacheKey(request_id_prefix, interval) == request_id_prefix \o <<interval>>

\* A slip: only the base interval is passed over.
SkipInterval_OnlyBase(interval, user_requested_interval) == interval = "1s"

\* Lines 45-46: the requested interval and the base interval are passed
\* over.
SkipInterval(interval, user_requested_interval) ==
    interval = user_requested_interval \/ interval = "1s"

\* Lines 44-67: the loop over the intervals from the i-th on: the base
\* series is resampled and, with a bar or more, cached under its key.
RECURSIVE FanOutLoop(_, _, _, _, _)
FanOutLoop(r, base_1s_candles, request_id_prefix, user_requested_interval, i) ==
    IF i > Len(StandardIntervals) THEN r
    ELSE LET interval == StandardIntervals[i]
             agg == launch_resample_ohlc(base_1s_candles, INTERVAL_SECONDS_MAP(interval))
             resampled_candles ==
                 [j \in 1..Len(agg) |->
                     CandleBase(agg[j].timestamp, agg[j].open, agg[j].high,
                                agg[j].low, agg[j].close, agg[j].volume)]
             written ==
                 IF SkipInterval(interval, user_requested_interval) \/ Len(agg) = 0
                 THEN r
                 ELSE set_cached_ohlc_data(r, TargetCacheKey(request_id_prefix, interval),
                                           resampled_candles)
         IN FanOutLoop(written, base_1s_candles, request_id_prefix,
                       user_requested_interval, i + 1)

\* resample_and_cache_all_intervals_task: the cache after the task. A base
\* key that is absent, or holds an empty list, ends the task at once
\* (lines 31-33).
resample_and_cache_all_intervals_task(r, base_1s_data_key, request_id_prefix, user_requested_interval) ==
    IF ~CachedOhlcPresent(r, base_1s_data_key) THEN r
    ELSE IF get_cached_ohlc_data(r, base_1s_data_key) = <<>> THEN r
    ELSE FanOutLoop(r, get_cached_ohlc_data(r, base_1s_data_key), request_id_prefix,
                    user_requested_interval, 1)

\* The prefixes a task may be given.
PrefixChoices == {<<"chart_data_full", "s1">>, RequestId("s1", "u1")}

\* The base keys a task may be given: every key of the cache, and one that
\* the cache does not hold.
BaseKeyChoices(r) == (DOMAIN r) \cup {<<"chart_data", "s1", "gone">>}

\* A worker runs the task after a get_initial request has been answered;
\* the task's record keeps its arguments and the cache before and after.
FanOutTask ==
    /\ resp # NoResp
    /\ ~task.called
    /\ \E base_1s_data_key \in BaseKeyChoices(redis),
          request_id_prefix \in PrefixChoices,
          user_requested_interval \in RequestedIntervals :
          \E after \in {resample_and_cache_all_intervals_task(
                            redis, base_1s_data_key, request_id_prefix,
                            user_requested_interval)} :
             /\ redis' = after
             /\ task' = [called |-> TRUE, base_1s_data_key |-> base_1s_data_key,
                         request_id_prefix |-> request_id_prefix,
                         user_requested_interval |-> user_requested_interval,
                         before |-> redis, after |-> after]
    /\ UNCHANGED <<upstream, servevars, sweepvars, racevars, kernelvars, vendorvars>>

NextFanOut == Query \/ FanOutTask

SpecFanOut == InitQuery /\ [][NextFanOut]_vars

\* The keys the task on record changed or created.
TaskWritten == {k \in DOMAIN task.after : k \notin DOMAIN task.before
                                            \/ task.after[k] # task.before[k]}

\* The base key of the task on record held a non-empty series.
TaskBaseNonEmpty ==
    /\ CachedOhlcPresent(task.before, task.base_1s_data_key)
    /\ get_cached_ohlc_data(task.before, task.base_1s_data_key) # <<>>

\* The keys of the standard intervals other than 1s and the requested one,
\* under the prefix of the task on record.
TaskTargets ==
    {TargetCacheKey(task.request_id_prefix, StandardIntervals[i]) :
        i \in {j \in DOMAIN StandardIntervals :
                  /\ StandardIntervals[j] # "1s"
                  /\ StandardIntervals[j] # task.user_requested_interval}}

\* What the task on record left in the cache: with a non-empty base, a
\* non-empty series under each target key, nothing under the key of 1s or
\* of the requested interval, no key lost; with no base or an empty one,
\* the cache as it was.
C32_TaskOutcome ==
    task.called =>
        /\ DOMAIN task.before \subseteq DOMAIN task.after
        /\ TaskBaseNonEmpty =>
              /\ \A k \in TaskTargets :
                    /\ CachedOhlcPresent(task.after, k)
                    /\ get_cached_ohlc_data(task.after, k) # <<>>
              /\ TaskWritten \subseteq TaskTargets
              /\ DOMAIN task.after = DOMAIN task.before \cup TaskTargets
        /\ ~TaskBaseNonEmpty => task.after = task.before

\* The task's step leaves the answer of the request alone, and the result
\* stored under the answer's request id.
C32_ResponseUntouched ==
    (task' # task) =>
        /\ resp' = resp
        /\ (resp.request_id # NoRequestId /\ resp.request_id \in DOMAIN redis)
              => (resp.request_id \in DOMAIN redis'
                    /\ redis'[resp.request_id] = redis[resp.request_id])

\* C32: given a key holding a non-empty series the task caches one series
\* under {prefix}:{interval} for every standard interval other than 1s and
\* the requested one, and nothing for these two; with the base key absent
\* or empty it writes nothing; and the answer of the request that went
\* before does not depend on it.
C32_FanOut == []C32_TaskOutcome /\ [][C32_ResponseUntouched]_vars

\* A task that ran on the stored result of a request for 5s and cached the
\* daily series alone.
C32_Witness ==
    /\ task.called
    /\ TaskBaseNonEmpty
    /\ task.user_requested_interval = "5s"
    /\ TaskWritten = {TargetCacheKey(task.request_id_prefix, "1d")}
    /\ resp.request_id = task.base_1s_data_key

====
